---- MODULE Spec2Model ----
\* Build-observability pipeline of Market-Data-Collector: the `build` command
\* of build-system/cli/buildctl.py (run_build) with the components it drives:
\* BuildFingerprint, BuildEventEmitter, MetricsCollector, BuildHistory and
\* ErrorMatcher.  One behaviour of Spec is one invocation of run_build on an
\* output directory that is either fresh or left behind by an earlier run.
EXTENDS Integers, Sequences, FiniteSets, TLC

\* ---------------------------------------------------------------- bounds
\* Largest exit code an adapter call may return (0 = success).
MaxExit == 1
\* Largest clock value (milliseconds) of the fingerprint specification.
MaxClock == 3
\* Largest number of fingerprint computations of the fingerprint specification.
MaxComputes == 2
MaxCalls == 3
MaxLimit == 2
MaxFiles == 3

\* ---------------------------------------------------------------- values
\* Python's Optional[T]: None is the empty tuple, a value x is <<x>>.
None == <<>>
Some(x) == <<x>>

ExitCodes == 0..MaxExit
\* Elapsed wall time of one adapter call of a phase, in microseconds.
ElapsedUs(phase) ==
    CASE phase = "restore" -> {1999}
      [] phase = "build" -> {5000}
      [] OTHER -> {3500}
\* Elapsed wall time of the whole phase loop, in microseconds.
TotalElapsedUs == {1400999, 1600000, 3001000}
\* Captured output of an adapter call: the set of error tokens found in it.
Outputs == {{"NU1101"}, {"CS0246"}}
Verbosities == {"quiet", "normal"}
Project == "MarketDataCollector.csproj"
Configurations == {"Release", "Debug"}

\* int(duration * 1000): seconds as a float to whole milliseconds, truncating.
ToMs(us) == us \div 1000

\* ------------------------------------------------------------ fingerprint
\* The result of subprocess.run for a probe: the tool may be absent
\* (FileNotFoundError), or run and give a return code and its output.
Probe(found, rc, out, err) == [found |-> found, rc |-> rc, stdout |-> out, stderr |-> err]

\* subprocess.run raising an OSError other than FileNotFoundError when it
\* launches the tool (PermissionError: the file is there and cannot be executed).
Denied == [found |-> TRUE, rc |-> 126, stdout |-> "", stderr |-> "", oserror |-> "PermissionError"]

\* _git_tree_hash: None when git is absent, fails, or prints nothing.
GitTreeHash(p) ==
    IF ~p.found THEN None
    ELSE IF p.rc # 0 THEN None
    ELSE IF p.stdout = "" THEN None ELSE Some(p.stdout)

\* hashlib.sha256: a collision-free digest of its input.
Sha256(bytes) == <<"sha256", bytes>>

\* _hash_files: the digest of the contents of the files in sorted path order.
HashFiles(files) == Sha256(files)

\* compute, lines 16-18: the VCS tree id when there is one, else the content hash.
SourceHash(w) ==
    IF GitTreeHash(w.git) # None THEN <<"tree", GitTreeHash(w.git)[1]>> ELSE HashFiles(w.files)

\* _run_version: stdout, else stderr, else "unknown"; "not-installed" when absent.
RunVersion(p) ==
    IF ~p.found THEN "not-installed"
    ELSE IF p.stdout # "" THEN p.stdout
    ELSE IF p.stderr # "" THEN p.stderr ELSE "unknown"

\* _tool_versions
ToolVersions(w) == [dotnet |-> RunVersion(w.dotnet), git |-> RunVersion(w.gitver)]

\* _lock_file_hashes: the digest of each recognised lock file that exists.
LockFileHashes(w) == {<<l[1], Sha256(l[2])>> : l \in w.locks}

\* _environment_snapshot: the allow-listed variables that are set.
EnvAllowList == {"CONFIGURATION", "TARGET", "DOTNET_ENVIRONMENT", "DOTNET_ROOT", "NUGET_PACKAGES", "CI"}
EnvironmentSnapshot(w) == {e \in w.env : e[1] \in EnvAllowList}

\* The payload of compute before the digest is added.
Payload(w, configuration, ts) ==
    [timestamp |-> ts,
     source_hash |-> SourceHash(w),
     tool_versions |-> ToolVersions(w),
     dependency_lock_hashes |-> LockFileHashes(w),
     environment |-> EnvironmentSnapshot(w),
     configuration |-> configuration,
     os |-> w.os,
     architecture |-> w.arch]

\* json.dumps(payload, sort_keys=True): the values in the order of their keys.
JsonDumps(p) ==
    <<p.architecture, p.configuration, p.dependency_lock_hashes, p.environment,
      p.os, p.source_hash, p.timestamp, p.tool_versions>>

\* BuildFingerprint.compute: the payload and the digest of its serialization.
Compute(w, configuration, ts) ==
    [payload |-> Payload(w, configuration, ts),
     fingerprint |-> Sha256(JsonDumps(Payload(w, configuration, ts)))]

\* ------------------------------------------------------------------ state
VARIABLES
    pc,               \* position of the process in run_build / the CLI command
    args,             \* the parsed command line (argparse.Namespace)
    ok,               \* run_build's `ok`, the result of run_preflight (None when not run)
    world,            \* what the fingerprint probes see: tree, tools, lock files, environment
    now,              \* the wall clock, in milliseconds
    next_uuid,        \* source of fresh event ids (uuid.uuid4)
    journal,          \* build-events.jsonl, one event per line
    human_log,        \* build-events.log, one rendered line per event
    console,          \* what was printed to standard output
    fingerprint,      \* the payload returned by BuildFingerprint.write (None before)
    fp_file,          \* build-fingerprint.json (None when absent)
    fp_log,           \* every fingerprint computation made: inputs, time, digest
    phase_idx,        \* index of the current phase in the phases list
    invoked,          \* the adapter calls made, in order: phase, exit code, output
    phase_durations,  \* dict phase -> duration_ms, in insertion order
    phase_success,    \* dict phase -> bool, in insertion order
    success,          \* run_build's success flag
    error_output,     \* run_build's error_output
    total_duration_ms,
    metrics_json,     \* metrics.json (None when absent)
    metrics_prom,     \* metrics.prom (None when absent)
    builds,           \* table builds of history.db
    build_phases,     \* table build_phases of history.db
    build_id,         \* the id returned by record_build (None before)
    phase_k,          \* index of the next phase_durations item to record
    matcher_log,      \* the outputs given to ErrorMatcher.match, with the report
    graph_written,    \* whether the dependency graph files were written
    at_start,         \* the files and the store as they were when the process started
    raised,           \* the exception that left run_build unhandled (None when none)
    metrics,          \* MetricsCollector.metrics of a collector used on its own
    patterns,         \* ErrorMatcher.patterns of a matcher used on its own
    knowledge,        \* the knowledge directory of that matcher: a set of <<file name, unit>>
    knowledge_exists, \* whether that directory exists
    procs,            \* the build runs that share an output directory, each with its position
    api_log,          \* the calls made on a component used on its own, with their results
    exit_code         \* the process's exit status (None while running)

vars == <<pc, args, ok, world, now, next_uuid, journal, human_log, console, fingerprint,
          fp_file, fp_log, phase_idx, invoked, phase_durations, phase_success, success,
          error_output, total_duration_ms, metrics_json, metrics_prom, builds,
          build_phases, build_id, phase_k, matcher_log, graph_written, at_start, raised,
          metrics, patterns, knowledge, knowledge_exists, procs, api_log,
          exit_code>>

\* The variables of the event sinks, of the fingerprint, and of the history store.
sinks == <<next_uuid, journal, human_log, console>>
fpvars == <<fingerprint, fp_file, fp_log>>
loopvars == <<phase_idx, invoked, phase_durations, phase_success, success, error_output>>
metricvars == <<metrics_json, metrics_prom>>
storevars == <<builds, build_phases, build_id, phase_k>>
apivars == <<metrics, patterns, knowledge, knowledge_exists, procs, api_log>>

\* ----------------------------------------------------------- event emitter
\* BuildEventEmitter.emit, lines 83-94: the event built from the arguments;
\* duration_ms, error_code and error_message are optional; context is None for
\* the empty dict; error_message is the list of the joined messages.
BuildEvent(id, ts, phase, event_type, duration_ms, context, error_code, error_message, tags) ==
    [event_id |-> id, timestamp |-> ts, phase |-> phase, project |-> Project,
     event_type |-> event_type, duration_ms |-> duration_ms, context |-> context,
     error_code |-> error_code, error_message |-> error_message, tags |-> tags]

\* _format_human: the status label, the optional parts only when present.
StatusLabel(event_type) ==
    CASE event_type = "completed" -> "SUCCESS"
      [] event_type = "failed" -> "FAILED"
      [] event_type = "warning" -> "WARN"
      [] OTHER -> "INFO"

FormatHuman(ev) ==
    [timestamp |-> ev.timestamp, label |-> StatusLabel(ev.event_type), phase |-> ev.phase,
     project |-> ev.project, duration |-> ev.duration_ms,
     context |-> ev.context,
     message |-> (IF ev.error_message = Some(<<>>) THEN None ELSE ev.error_message)]

\* _should_print: quiet echoes only failed and warning events, the rest all.
ShouldPrint(verbosity, event_type) ==
    IF verbosity = "quiet" THEN event_type \in {"failed", "warning"} ELSE TRUE

\* Emit with the journal opened for writing instead of appending.
EmitTruncating(phase, event_type, duration_ms, context, error_code, error_message, tags) ==
    LET ev == BuildEvent(next_uuid, now, phase, event_type, duration_ms, context,
                         error_code, error_message, tags)
    IN /\ next_uuid' = next_uuid + 1
       /\ journal' = <<ev>>
       /\ human_log' = Append(human_log, FormatHuman(ev))
       /\ console' = IF ShouldPrint(args.verbosity, event_type)
                     THEN Append(console, [kind |-> "event", line |-> FormatHuman(ev)])
                     ELSE console

\* emit: a fresh id and timestamp, the journal line, the human line, the echo.
Emit(phase, event_type, duration_ms, context, error_code, error_message, tags) ==
    LET ev == BuildEvent(next_uuid, now, phase, event_type, duration_ms, context,
                         error_code, error_message, tags)
    IN /\ next_uuid' = next_uuid + 1
       /\ journal' = Append(journal, ev)
       /\ human_log' = Append(human_log, FormatHuman(ev))
       /\ console' = IF ShouldPrint(args.verbosity, event_type)
                     THEN Append(console, [kind |-> "event", line |-> FormatHuman(ev)])
                     ELSE console

\* ---------------------------------------------------------------- preflight
\* run_preflight (build-system/diagnostics/preflight.py): one message for the
\* missing tools, one for the missing configuration file; ok when there is none.
RunPreflight(tools_missing, config_exists) ==
    (IF tools_missing THEN <<"Missing tools">> ELSE <<>>)
    \o (IF config_exists THEN <<>> ELSE <<"config/appsettings.json missing">>)

\* ------------------------------------------------------------------ metrics
\* MetricsRecord keeping the first value recorded under a name.
MetricsRecordFirstWins(m, name, value) ==
    IF \E i \in 1..Len(m) : m[i][1] = name THEN m ELSE Append(m, <<name, value>>)

\* MetricsCollector.record on the dict, kept as a sequence of <<name, value>>
\* in insertion order: a recorded name keeps its place and takes the new value.
MetricsRecord(m, name, value) ==
    IF \E i \in 1..Len(m) : m[i][1] = name
    THEN [i \in 1..Len(m) |-> IF m[i][1] = name THEN <<name, value>> ELSE m[i]]
    ELSE Append(m, <<name, value>>)

RECURSIVE RecordPhaseMetrics(_, _, _)
\* run_build, lines 114-115: one duration metric per item of phase_durations.
RecordPhaseMetrics(m, durations, i) ==
    IF i > Len(durations) THEN m
    ELSE RecordPhaseMetrics(
            MetricsRecord(m, <<"build", "phase", durations[i][1], "duration_ms">>, durations[i][2]),
            durations, i + 1)

\* A metric name is the sequence of its dot-separated parts.
\* write_json(metrics.json): the dict as a map, keys sorted (order-free here).
JsonKey(name) == [sep |-> ".", parts |-> name]
MetricsJson(m) == {<<JsonKey(m[i][1]), m[i][2]>> : i \in 1..Len(m)}

\* metrics.prom: a TYPE line and a value line per metric, in dict order, the
\* dots of the name replaced by underscores.
\* key.replace(".", "_") joins the parts by underscores, so that an underscore
\* inside a part and a dot between two parts give the same text: Words is the
\* list of the underscore-separated words of a part.
Words(part) ==
    CASE part = "duration_ms" -> <<"duration", "ms">>
      [] part = "a_b" -> <<"a", "b">>
      [] OTHER -> <<part>>
RECURSIVE Flatten(_)
Flatten(name) == IF name = <<>> THEN <<>> ELSE Words(Head(name)) \o Flatten(Tail(name))
SafeKey(name) == [sep |-> "_", parts |-> Flatten(name)]
MetricsProm(m) == [i \in 1..Len(m) |-> <<SafeKey(m[i][1]), "gauge", m[i][2]>>]

\* ------------------------------------------------------------ history store
\* INTEGER PRIMARY KEY AUTOINCREMENT: one more than the largest id ever used
\* (no row of builds is ever deleted, so that is the largest id in the table).
RECURSIVE MaxId(_)
MaxId(rows) == IF rows = <<>> THEN 0
               ELSE LET m == MaxId(Tail(rows)) IN IF Head(rows).id > m THEN Head(rows).id ELSE m
\* LastRowId giving the largest id in use instead of the new one.
LastRowIdStale(rows) == MaxId(rows)
LastRowId(rows) == MaxId(rows) + 1

\* BuildRecord as built by run_build, lines 121-131.
BuildRecord(fp, ts, duration_ms, succeeded, configuration) ==
    [fingerprint |-> fp, timestamp |-> ts, duration_ms |-> duration_ms, success |-> succeeded,
     git_sha |-> "sha", git_branch |-> "branch", warnings_count |-> 0,
     errors_count |-> (IF succeeded THEN 0 ELSE 1), configuration |-> configuration]

\* The row record_build inserts: the record's fields, success as 1/0, the new id.
BuildRow(id, r) ==
    [id |-> id, fingerprint |-> r.fingerprint, timestamp |-> r.timestamp,
     duration_ms |-> r.duration_ms, success |-> (IF r.success THEN 1 ELSE 0),
     git_sha |-> r.git_sha, git_branch |-> r.git_branch,
     warnings_count |-> r.warnings_count, errors_count |-> r.errors_count,
     configuration |-> r.configuration]

\* The row record_phase inserts.
PhaseRow(id, phase, duration_ms, succeeded) ==
    [build_id |-> id, phase |-> phase, duration_ms |-> duration_ms,
     success |-> (IF succeeded THEN 1 ELSE 0), cache_hit |-> 0]

RECURSIVE SumDurations(_)
SumDurations(rows) == IF rows = <<>> THEN 0 ELSE Head(rows).duration_ms + SumDurations(Tail(rows))

\* average_duration: SELECT AVG(duration_ms), as the exact fraction <<sum, count>>;
\* None when there is no row, and also when the average is 0 (`row[0]` is falsy).
AverageDuration(rows) ==
    IF rows = <<>> THEN None
    ELSE IF SumDurations(rows) = 0 THEN None
    ELSE Some(<<SumDurations(rows), Len(rows)>>)

\* AnomalyWarning that also warns when the duration is equal to avg * 1.5.
AnomalyWarningAtLeast(rows, duration_ms) ==
    /\ AverageDuration(rows) # None
    /\ 2 * duration_ms * AverageDuration(rows)[1][2] >= 3 * AverageDuration(rows)[1][1]

\* anomaly_warning: duration_ms > avg * 1.5, i.e. 2 * duration * count > 3 * sum.
AnomalyWarning(rows, duration_ms) ==
    /\ AverageDuration(rows) # None
    /\ 2 * duration_ms * AverageDuration(rows)[1][2] > 3 * AverageDuration(rows)[1][1]

\* rows without its k-th row.
Remove(rows, k) == SubSeq(rows, 1, k - 1) \o SubSeq(rows, k + 1, Len(rows))
RECURSIVE OrderByIdDesc(_)
\* ORDER BY id DESC.
OrderByIdDesc(rows) ==
    IF rows = <<>> THEN <<>>
    ELSE LET k == CHOOSE i \in 1..Len(rows) : rows[i].id = MaxId(rows)
         IN <<rows[k]>> \o OrderByIdDesc(Remove(rows, k))
RECURSIVE OrderByIdAsc(_)
\* ORDER BY id ASC.
OrderByIdAsc(rows) ==
    IF rows = <<>> THEN <<>>
    ELSE LET k == CHOOSE i \in 1..Len(rows) : rows[i].id = MaxId(rows)
         IN OrderByIdAsc(Remove(rows, k)) \o <<rows[k]>>
\* The columns recent_builds selects: timestamp, duration_ms, success.
Selected(row) == <<row.timestamp, row.duration_ms, row.success>>
\* LIMIT n: the first n rows, every row when n is negative.
Limit(rows, n) == IF n < 0 \/ n > Len(rows) THEN rows ELSE SubSeq(rows, 1, n)
\* recent_builds with the oldest build first.
RecentBuildsOldestFirst(rows, limit) ==
    LET found == Limit(OrderByIdAsc(rows), limit)
    IN [i \in 1..Len(found) |-> Selected(found[i])]
\* recent_builds without its LIMIT.
RecentBuildsUnlimited(rows, limit) ==
    LET found == OrderByIdDesc(rows)
    IN [i \in 1..Len(found) |-> Selected(found[i])]
\* recent_builds: SELECT timestamp, duration_ms, success FROM builds
\* ORDER BY id DESC LIMIT ?.
RecentBuilds(rows, limit) ==
    LET found == Limit(OrderByIdDesc(rows), limit)
    IN [i \in 1..Len(found) |-> Selected(found[i])]

\* ------------------------------------------------------------ error matcher
\* The knowledge directory as loaded by _load_patterns: the units of the *.json
\* files in sorted file-name order, each with its list of patterns.
Library ==
    << [error_code |-> "CS0246", severity |-> "error", patterns |-> <<"CS0246", "type or namespace">>],
       [error_code |-> "NU1101", severity |-> "error", patterns |-> <<"NU1101">>] >>

\* re.search(regex, output): the pattern occurs somewhere in the output.
Search(regex, output) == regex \in output

\* The test of line 28: an entry without a pattern, or with the empty one (""
\* here), is skipped; the others are searched.
Found(regex, output) == regex # "" /\ Search(regex, output)

\* The inner loop of match without its break: the unit once per entry found.
UnitMatchesNoBreak(unit, output) ==
    [i \in 1..Cardinality({j \in 1..Len(unit.patterns) : Found(unit.patterns[j], output)}) |-> unit]

\* The inner loop of match, lines 26-30: the unit is appended at the first
\* entry found, and the loop over its entries is left.
UnitMatches(unit, output) ==
    IF \E i \in 1..Len(unit.patterns) : Found(unit.patterns[i], output) THEN <<unit>> ELSE <<>>

RECURSIVE Match(_, _)
\* ErrorMatcher.match: the units one of whose patterns is found, in load order.
Match(library, output) ==
    IF library = <<>> THEN <<>>
    ELSE UnitMatches(Head(library), output) \o Match(Tail(library), output)

RECURSIVE Sorted(_)
\* sorted(...) of a set of file names.
Sorted(names) ==
    IF names = {} THEN <<>>
    ELSE LET m == CHOOSE x \in names : \A y \in names : x <= y
         IN <<m>> \o Sorted(names \ {m})

\* _load_patterns: the payload of every *.json file of the knowledge directory
\* (a set of <<file name, unit>>), in sorted file-name order; none when the
\* directory does not exist.
LoadPatterns(dir) ==
    LET names == Sorted({f[1] : f \in dir})
    IN [i \in 1..Len(names) |-> (CHOOSE f \in dir : f[1] = names[i])[2]]

\* The content of a file that json.loads rejects, or that cannot be read.
Malformed == [malformed |-> TRUE]

\* ------------------------------------------------------------ initial state
NotFound == Probe(FALSE, 0, "", "")
GitProbes == {NotFound, Probe(TRUE, 128, "", "fatal: not a git repository"),
              Probe(TRUE, 0, "t1", ""), Probe(TRUE, 0, "t2", "")}
DotnetProbes == {NotFound, Probe(TRUE, 0, "8.0.100", "")}
\* What the probes of the fingerprint can see.
Worlds ==
    {[git |-> g, files |-> f, dotnet |-> d,
      gitver |-> (IF g.found THEN Probe(TRUE, 0, "git version 2.43.0", "") ELSE NotFound),
      locks |-> l, env |-> e, os |-> "Linux-6.1-x86_64", arch |-> "x86_64"] :
        g \in GitProbes, f \in {"c1", "c2"}, d \in DotnetProbes,
        l \in {{}, {<<"packages.lock.json", "l1">>}},
        e \in {{}, {<<"CI", "true">>}, {<<"CI", "true">>, <<"HOME", "/root">>}}}

\* The worlds a build run starts in: git present with a tree id, or git absent.
BuildWorlds ==
    {w \in Worlds : /\ w.files = "c1" /\ w.dotnet.found /\ w.locks = {}
                    /\ w.env = {<<"CI", "true">>} /\ w.git \in {NotFound, Probe(TRUE, 0, "t1", "")}}

Args == [skip_preflight : BOOLEAN, force : BOOLEAN, with_tests : BOOLEAN,
         generate_graph : BOOLEAN, verbosity : Verbosities, configuration : {"Release"}]

\* The output directory an earlier run left behind: a run at time 0 with
\* --skip-preflight and --with-tests, every phase successful, 1000 ms long.
PriorWorld == CHOOSE w \in BuildWorlds : w.git.found
PriorFingerprint == Compute(PriorWorld, "Release", 0)
PriorDurations == <<<<"restore", 1>>, <<"build", 5>>, <<"test", 3>>>>
PriorJournal ==
    << BuildEvent(1, 0, "fingerprint", "completed", None,
                  Some([fingerprint |-> PriorFingerprint.fingerprint]), None, None, <<>>),
       BuildEvent(2, 0, "restore", "started", None, None, None, None, <<"restore">>),
       BuildEvent(3, 0, "restore", "completed", Some(1), None, None, None, <<"restore">>),
       BuildEvent(4, 0, "build", "started", None, None, None, None, <<"build">>),
       BuildEvent(5, 0, "build", "completed", Some(5), None, None, None, <<"build">>),
       BuildEvent(6, 0, "test", "started", None, None, None, None, <<"test">>),
       BuildEvent(7, 0, "test", "completed", Some(3), None, None, None, <<"test">>),
       BuildEvent(8, 0, "build", "completed", Some(1000), Some([log |-> "logfile"]), None, None,
                  <<"summary">>) >>
PriorMetrics ==
    MetricsRecord(
        RecordPhaseMetrics(MetricsRecord(<<>>, <<"build", "duration_ms">>, 1000), PriorDurations, 1),
        <<"build", "success">>, 1)
PriorBuilds ==
    << BuildRow(1, BuildRecord(PriorFingerprint.fingerprint, 0, 1000, TRUE, "Release")) >>
PriorPhases ==
    << PhaseRow(1, "restore", 1, TRUE), PhaseRow(1, "build", 5, TRUE),
       PhaseRow(1, "test", 3, TRUE) >>

\* The state of the process at the entry of run_build, on a fresh or a used
\* output directory.
InitRun(used) ==
    /\ pc = "entry"
    /\ args \in Args
    /\ ok = None
    /\ world \in BuildWorlds
    /\ now = 1
    /\ next_uuid = IF used THEN Len(PriorJournal) + 1 ELSE 1
    /\ journal = IF used THEN PriorJournal ELSE <<>>
    /\ human_log = IF used THEN [i \in 1..Len(PriorJournal) |-> FormatHuman(PriorJournal[i])] ELSE <<>>
    /\ console = <<>>
    /\ fingerprint = None
    /\ fp_file = IF used THEN Some(PriorFingerprint) ELSE None
    /\ fp_log = <<>>
    /\ phase_idx = 1
    /\ invoked = <<>>
    /\ phase_durations = <<>>
    /\ phase_success = <<>>
    /\ success = TRUE
    /\ error_output = {}
    /\ total_duration_ms = None
    /\ metrics_json = IF used THEN Some(MetricsJson(PriorMetrics)) ELSE None
    /\ metrics_prom = IF used THEN Some(MetricsProm(PriorMetrics)) ELSE None
    /\ builds = IF used THEN PriorBuilds ELSE <<>>
    /\ build_phases = IF used THEN PriorPhases ELSE <<>>
    /\ build_id = None
    /\ phase_k = 1
    /\ matcher_log = <<>>
    /\ graph_written = FALSE
    /\ at_start = [journal |-> journal, fp_file |-> fp_file, metrics_json |-> metrics_json,
                    metrics_prom |-> metrics_prom, builds |-> builds,
                    build_phases |-> build_phases]
    /\ raised = None
    /\ metrics = <<>>
    /\ patterns = <<>>
    /\ knowledge = {}
    /\ knowledge_exists = TRUE
    /\ procs = <<>>
    /\ api_log = <<>>
    /\ exit_code = None

Init == \E used \in BOOLEAN : InitRun(used)

\* ---------------------------------------------------------------- run_build
\* The phases list of run_build, lines 66-71.
Phases(a) == IF a.with_tests THEN <<"restore", "build", "test">> ELSE <<"restore", "build">>

\* The journal of this run: what was appended since the process started.
RunEvents == SubSeq(journal, Len(at_start.journal) + 1, Len(journal))

\* Lines 34-38: the output directories are made if absent and the emitter is
\* constructed (events.py, lines 25-30); no file is opened, written or removed.
ConstructEmitter ==
    /\ pc = "entry"
    /\ pc' = "start"
    /\ UNCHANGED <<args, ok, world, now, sinks, fpvars, loopvars, total_duration_ms,
                   metricvars, storevars, matcher_log, graph_written, at_start, raised,
                   apivars, exit_code>>

\* PreflightAbort without its `return 2`: the run goes on to the fingerprint.
PreflightAbortNoReturn ==
    /\ pc = "start"
    /\ ~args.skip_preflight
    /\ \E tools_missing \in BOOLEAN, config_exists \in BOOLEAN :
          LET messages == RunPreflight(tools_missing, config_exists)
              passed == Len(messages) = 0
          IN /\ ~passed /\ ~args.force
             /\ ok' = Some(passed)
             /\ Emit("preflight", "failed", None, None, None, Some(messages), <<"preflight">>)
    /\ pc' = "fingerprint"
    /\ UNCHANGED <<args, world, now, fpvars, loopvars, total_duration_ms, metricvars,
                   storevars, matcher_log, graph_written, at_start, raised, apivars, exit_code>>

\* Lines 40-50: preflight ran, is not ok, no --force: one failed event, exit 2.
PreflightAbort ==
    /\ pc = "start"
    /\ ~args.skip_preflight
    /\ \E tools_missing \in BOOLEAN, config_exists \in BOOLEAN :
          LET messages == RunPreflight(tools_missing, config_exists)
              passed == Len(messages) = 0
          IN /\ ~passed /\ ~args.force
             /\ ok' = Some(passed)
             /\ Emit("preflight", "failed", None, None, None, Some(messages), <<"preflight">>)
    /\ exit_code' = Some(2)
    /\ pc' = "done"
    /\ UNCHANGED <<args, world, now, fpvars, loopvars, total_duration_ms, metricvars,
                   storevars, matcher_log, graph_written, at_start, raised, apivars>>

\* PreflightWarning with --force ignored: the warning is recorded, the run aborts.
PreflightWarningAborts ==
    /\ pc = "start"
    /\ ~args.skip_preflight
    /\ \E tools_missing \in BOOLEAN, config_exists \in BOOLEAN :
          LET messages == RunPreflight(tools_missing, config_exists)
              passed == Len(messages) = 0
          IN /\ ~passed /\ args.force
             /\ ok' = Some(passed)
             /\ Emit("preflight", "warning", None, None, None, Some(messages), <<"preflight">>)
    /\ exit_code' = Some(2)
    /\ pc' = "done"
    /\ UNCHANGED <<args, world, now, fpvars, loopvars, total_duration_ms, metricvars,
                   storevars, matcher_log, graph_written, at_start, raised, apivars>>

\* Lines 51-58: preflight is not ok and --force is given: a warning event.
PreflightWarning ==
    /\ pc = "start"
    /\ ~args.skip_preflight
    /\ \E tools_missing \in BOOLEAN, config_exists \in BOOLEAN :
          LET messages == RunPreflight(tools_missing, config_exists)
              passed == Len(messages) = 0
          IN /\ ~passed /\ args.force
             /\ ok' = Some(passed)
             /\ Emit("preflight", "warning", None, None, None, Some(messages), <<"preflight">>)
    /\ pc' = "fingerprint"
    /\ UNCHANGED <<args, world, now, fpvars, loopvars, total_duration_ms, metricvars,
                   storevars, matcher_log, graph_written, at_start, raised, apivars, exit_code>>

\* Lines 59-60: preflight is ok: a completed event.
PreflightPassed ==
    /\ pc = "start"
    /\ ~args.skip_preflight
    /\ \E tools_missing \in BOOLEAN, config_exists \in BOOLEAN :
          LET messages == RunPreflight(tools_missing, config_exists)
              passed == Len(messages) = 0
          IN /\ passed
             /\ ok' = Some(passed)
             /\ Emit("preflight", "completed", None, None, None, None, <<"preflight">>)
    /\ pc' = "fingerprint"
    /\ UNCHANGED <<args, world, now, fpvars, loopvars, total_duration_ms, metricvars,
                   storevars, matcher_log, graph_written, at_start, raised, apivars, exit_code>>

\* Line 40: --skip-preflight: no preflight, no event.
PreflightSkipped ==
    /\ pc = "start"
    /\ args.skip_preflight
    /\ pc' = "fingerprint"
    /\ UNCHANGED <<args, ok, world, now, sinks, fpvars, loopvars, total_duration_ms, metricvars,
                   storevars, matcher_log, graph_written, at_start, raised, apivars, exit_code>>

\* BuildFingerprint.write: compute, then write the snapshot file wholesale.
FingerprintWrite(configuration) ==
    LET payload == Compute(world, configuration, now)
    IN /\ fingerprint' = Some(payload)
       /\ fp_file' = Some(payload)
       /\ fp_log' = Append(fp_log, [world |-> world, configuration |-> configuration,
                                     time |-> now, fingerprint |-> payload.fingerprint])

\* Lines 62-63: the fingerprint is computed and written, its event emitted.
Fingerprinting ==
    /\ pc = "fingerprint"
    /\ FingerprintWrite(args.configuration)
    /\ Emit("fingerprint", "completed", None,
            Some([fingerprint |-> Compute(world, args.configuration, now).fingerprint]),
            None, None, <<>>)
    /\ pc' = "phase_start"
    /\ UNCHANGED <<args, ok, world, now, loopvars, total_duration_ms, metricvars, storevars,
                   matcher_log, graph_written, at_start, raised, apivars, exit_code>>

\* PhaseStarted without its emit call.
PhaseStartedSilent ==
    /\ pc = "phase_start"
    /\ phase_idx <= Len(Phases(args))
    /\ pc' = "phase_call"
    /\ UNCHANGED <<args, ok, world, now, sinks, fpvars, loopvars, total_duration_ms, metricvars,
                   storevars, matcher_log, graph_written, at_start, raised, apivars, exit_code>>

\* Line 80: the started event of the current phase.
PhaseStarted ==
    /\ pc = "phase_start"
    /\ phase_idx <= Len(Phases(args))
    /\ Emit(Phases(args)[phase_idx], "started", None, None, None, None, <<Phases(args)[phase_idx]>>)
    /\ pc' = "phase_call"
    /\ UNCHANGED <<args, ok, world, now, fpvars, loopvars, total_duration_ms, metricvars,
                   storevars, matcher_log, graph_written, at_start, raised, apivars, exit_code>>

\* AfterSuccess going back to the fingerprint step before the next phase.
AfterSuccessRefingerprint(idx) == IF idx < Len(Phases(args)) THEN "fingerprint" ELSE "post"

\* Where the loop goes after a successful phase: the next phase, or the post-run.
AfterSuccess(idx) == IF idx < Len(Phases(args)) THEN "phase_start" ELSE "post"

\* PhaseCompleted without the completed event.
PhaseCompletedSilent ==
    /\ pc = "phase_call"
    /\ \E output \in Outputs, elapsed \in ElapsedUs(Phases(args)[phase_idx]) :
          LET phase == Phases(args)[phase_idx]
              duration_ms == ToMs(elapsed)
          IN /\ invoked' = Append(invoked, [phase |-> phase, exit_code |-> 0, output |-> output])
             /\ phase_durations' = Append(phase_durations, <<phase, duration_ms>>)
             /\ phase_success' = Append(phase_success, <<phase, TRUE>>)
    /\ pc' = AfterSuccess(phase_idx)
    /\ phase_idx' = phase_idx + 1
    /\ UNCHANGED <<args, ok, world, now, sinks, fpvars, success, error_output, total_duration_ms,
                   metricvars, storevars, matcher_log, graph_written, at_start, raised, apivars,
                   exit_code>>

\* Lines 81-86: the adapter call returns 0: completed event, next phase.
PhaseCompleted ==
    /\ pc = "phase_call"
    /\ \E output \in Outputs, elapsed \in ElapsedUs(Phases(args)[phase_idx]) :
          LET phase == Phases(args)[phase_idx]
              duration_ms == ToMs(elapsed)
          IN /\ invoked' = Append(invoked, [phase |-> phase, exit_code |-> 0, output |-> output])
             /\ phase_durations' = Append(phase_durations, <<phase, duration_ms>>)
             /\ Emit(phase, "completed", Some(duration_ms), None, None, None, <<phase>>)
             /\ phase_success' = Append(phase_success, <<phase, TRUE>>)
    /\ pc' = AfterSuccess(phase_idx)
    /\ phase_idx' = phase_idx + 1
    /\ UNCHANGED <<args, ok, world, now, fpvars, success, error_output, total_duration_ms,
                   metricvars, storevars, matcher_log, graph_written, at_start, raised, apivars, exit_code>>

\* AfterFailure without the `break`: the loop goes on as after a success.
AfterFailureNoBreak(idx) == AfterSuccess(idx)

\* Where the loop goes after a failed phase: `break`, to the post-run.
AfterFailure(idx) == "post"

\* PhaseFailed going back to the same phase instead of leaving the loop (at
\* most twice).
PhaseFailedRetry ==
    /\ pc = "phase_call"
    /\ Len(invoked) < 3
    /\ \E code \in ExitCodes \ {0}, output \in Outputs,
          elapsed \in ElapsedUs(Phases(args)[phase_idx]) :
          LET phase == Phases(args)[phase_idx]
              duration_ms == ToMs(elapsed)
          IN /\ invoked' = Append(invoked, [phase |-> phase, exit_code |-> code, output |-> output])
             /\ phase_durations' = Append(phase_durations, <<phase, duration_ms>>)
             /\ success' = FALSE
             /\ error_output' = output
             /\ Emit(phase, "failed", Some(duration_ms), None, Some(code),
                     Some(<<"Build phase failed">>), <<phase>>)
             /\ phase_success' = Append(phase_success, <<phase, FALSE>>)
    /\ pc' = "phase_start"
    /\ UNCHANGED <<args, ok, world, now, fpvars, total_duration_ms, metricvars, storevars,
                   matcher_log, graph_written, at_start, raised, apivars, exit_code, phase_idx>>

\* Lines 81-83, 87-100: the adapter call returns non-zero: failed event, break.
PhaseFailed ==
    /\ pc = "phase_call"
    /\ \E code \in ExitCodes \ {0}, output \in Outputs,
          elapsed \in ElapsedUs(Phases(args)[phase_idx]) :
          LET phase == Phases(args)[phase_idx]
              duration_ms == ToMs(elapsed)
          IN /\ invoked' = Append(invoked, [phase |-> phase, exit_code |-> code, output |-> output])
             /\ phase_durations' = Append(phase_durations, <<phase, duration_ms>>)
             /\ success' = FALSE
             /\ error_output' = output
             /\ Emit(phase, "failed", Some(duration_ms), None, Some(code),
                     Some(<<"Build phase failed">>), <<phase>>)
             /\ phase_success' = Append(phase_success, <<phase, FALSE>>)
    /\ pc' = AfterFailure(phase_idx)
    /\ phase_idx' = phase_idx + 1
    /\ UNCHANGED <<args, ok, world, now, fpvars, total_duration_ms, metricvars, storevars,
                   matcher_log, graph_written, at_start, raised, apivars, exit_code>>

\* Lines 102-110: the aggregate build event with the total duration.
PostRun ==
    /\ pc = "post"
    /\ \E elapsed \in TotalElapsedUs :
          /\ total_duration_ms' = Some(ToMs(elapsed))
          /\ Emit("build", IF success THEN "completed" ELSE "failed", Some(ToMs(elapsed)),
                  Some([log |-> "logfile"]), None, None, <<"summary">>)
    /\ pc' = "metrics"
    /\ UNCHANGED <<args, ok, world, now, fpvars, loopvars, metricvars, storevars,
                   matcher_log, graph_written, at_start, raised, apivars, exit_code>>

\* Lines 112-116: the metrics of this run, recorded on a new collector.
RunMetrics ==
    MetricsRecord(
        RecordPhaseMetrics(
            MetricsRecord(<<>>, <<"build", "duration_ms">>, total_duration_ms[1]),
            phase_durations, 1),
        <<"build", "success">>, IF success THEN 1 ELSE 0)

\* WriteMetrics keeping the entries of the files it finds that this run did not
\* record.
WriteMetricsMerging ==
    /\ pc = "metrics"
    /\ LET new == MetricsJson(RunMetrics)
           newprom == MetricsProm(RunMetrics)
           old == IF metrics_json = None THEN {} ELSE metrics_json[1]
           oldprom == IF metrics_prom = None THEN <<>> ELSE metrics_prom[1]
           Kept(e) == \A n \in new : n[1] # e[1]
           KeptLine(l) == \A i \in 1..Len(newprom) : newprom[i][1] # l[1]
       IN /\ metrics_json' = Some({e \in old : Kept(e)} \cup new)
          /\ metrics_prom' = Some(SelectSeq(oldprom, KeptLine) \o newprom)
    /\ pc' = "record_build"
    /\ UNCHANGED <<args, ok, world, now, sinks, fpvars, loopvars, total_duration_ms, storevars,
                   matcher_log, graph_written, at_start, raised, apivars, exit_code>>

\* Lines 112-117: MetricsCollector.write overwrites both metrics files.
WriteMetrics ==
    /\ pc = "metrics"
    /\ metrics_json' = Some(MetricsJson(RunMetrics))
    /\ metrics_prom' = Some(MetricsProm(RunMetrics))
    /\ pc' = "record_build"
    /\ UNCHANGED <<args, ok, world, now, sinks, fpvars, loopvars, total_duration_ms, storevars,
                   matcher_log, graph_written, at_start, raised, apivars, exit_code>>

\* Lines 119-132: the store is opened (the schema exists or is created, no row
\* is touched) and record_build inserts the run's BuildRecord, returning its id.
RecordBuild ==
    /\ pc = "record_build"
    /\ LET record == BuildRecord(fingerprint[1].fingerprint, now, total_duration_ms[1],
                                 success, args.configuration)
           id == LastRowId(builds)
       IN /\ builds' = Append(builds, BuildRow(id, record))
          /\ build_id' = Some(id)
    /\ phase_k' = 1
    /\ pc' = "record_phase"
    /\ UNCHANGED <<args, ok, world, now, sinks, fpvars, loopvars, total_duration_ms, metricvars,
                   build_phases, matcher_log, graph_written, at_start, raised, apivars, exit_code>>

\* PhaseSuccessGet giving the default for every phase.
PhaseSuccessDefault(phase) == TRUE

\* phase_success.get(phase, True)
PhaseSuccessGet(phase) ==
    IF \E i \in 1..Len(phase_success) : phase_success[i][1] = phase
    THEN LET i == CHOOSE j \in 1..Len(phase_success) : phase_success[j][1] = phase
         IN phase_success[i][2]
    ELSE TRUE

\* Lines 133-134: record_phase for the next item of phase_durations.
RecordPhase ==
    /\ pc = "record_phase"
    /\ phase_k <= Len(phase_durations)
    /\ LET phase == phase_durations[phase_k][1]
           duration == phase_durations[phase_k][2]
       IN build_phases' = Append(build_phases,
                                 PhaseRow(build_id[1], phase, duration, PhaseSuccessGet(phase)))
    /\ phase_k' = phase_k + 1
    /\ UNCHANGED <<pc, args, ok, world, now, sinks, fpvars, loopvars, total_duration_ms, metricvars,
                   builds, build_id, matcher_log, graph_written, at_start, raised, apivars, exit_code>>

\* AfterAnomaly without the `if not success` branch.
AfterAnomalyNoFailure == "finish"

\* AfterAnomaly with the warning counted as a failure of the run.
AfterAnomalyWarned ==
    IF success /\ ~AnomalyWarning(builds, total_duration_ms[1]) THEN "finish" ELSE "match"

\* Where run_build goes after the anomaly check, lines 138 and 144.
AfterAnomaly == IF success THEN "finish" ELSE "match"

\* Line 136: anomaly_warning prints the warning when the run is too long.
Anomaly ==
    /\ pc = "record_phase"
    /\ phase_k > Len(phase_durations)
    /\ console' = IF AnomalyWarning(builds, total_duration_ms[1])
                  THEN Append(console, [kind |-> "text",
                                        text |-> "Warning: build duration exceeds historical average."])
                  ELSE console
    /\ pc' = AfterAnomaly
    /\ UNCHANGED <<args, ok, world, now, next_uuid, journal, human_log, fpvars, loopvars,
                   total_duration_ms, metricvars, storevars, matcher_log, graph_written,
                   at_start, raised, apivars, exit_code>>

\* MatcherInput taking the output of the first adapter call.
MatcherInputFirst == invoked[1].output

\* ErrorMatcher.print_matches: what is printed for a list of matches, one
\* entry per match, or the line that says there is none.
PrintMatches(matches) ==
    IF matches = <<>>
    THEN << [kind |-> "text", text |-> "No known error patterns detected."] >>
    ELSE [i \in 1..Len(matches) |->
            [kind |-> "match", severity |-> matches[i].severity, error_code |-> matches[i].error_code]]

\* Line 140: what is given to the matcher.
MatcherInput == error_output

\* Lines 138-142: the matcher on error_output, the report printed, exit 1.
MatchErrors ==
    /\ pc = "match"
    /\ matcher_log' = Append(matcher_log,
                             [output |-> MatcherInput, matches |-> Match(Library, MatcherInput)])
    /\ console' = console \o PrintMatches(Match(Library, MatcherInput))
    /\ exit_code' = Some(1)
    /\ pc' = "done"
    /\ UNCHANGED <<args, ok, world, now, next_uuid, journal, human_log, fpvars, loopvars,
                   total_duration_ms, metricvars, storevars, graph_written, at_start, raised, apivars>>

\* Lines 144-149: the dependency graph when asked for, exit 0.
Finish ==
    /\ pc = "finish"
    /\ graph_written' = args.generate_graph
    /\ console' = Append(console, [kind |-> "text", text |-> "Build completed"])
    /\ exit_code' = Some(0)
    /\ pc' = "done"
    /\ UNCHANGED <<args, ok, world, now, next_uuid, journal, human_log, fpvars, loopvars,
                   total_duration_ms, metricvars, storevars, matcher_log, at_start, raised, apivars>>

Next ==
    \/ ConstructEmitter
    \/ PreflightAbort
    \/ PreflightWarning
    \/ PreflightPassed
    \/ PreflightSkipped
    \/ Fingerprinting
    \/ PhaseStarted
    \/ PhaseCompleted
    \/ PhaseFailed
    \/ PostRun
    \/ WriteMetrics
    \/ RecordBuild
    \/ RecordPhase
    \/ Anomaly
    \/ MatchErrors
    \/ Finish

Spec == Init /\ [][Next]_vars

\* run_build is straight-line code in one thread: when the call it is waiting
\* for returns, its next step is taken. The runs are those of Spec with the
\* inputs that no condition of run_build reads held fixed: the verbosity and
\* what the fingerprint probes see.
InitLive ==
    /\ Init
    /\ args.verbosity = "normal"
    /\ world = PriorWorld

SpecLive == InitLive /\ [][Next]_vars /\ WF_vars(Next)

\* ------------------------------------------------- collaborators that raise
\* run_build has no try/except: an exception raised by a component leaves
\* run_build and main, the interpreter prints the traceback and the process
\* ends with status 1 (buildctl.py, line 421).
Unhandled(component, op) ==
    /\ raised' = Some([component |-> component, op |-> op])
    /\ exit_code' = Some(1)
    /\ pc' = "crashed"

\* Line 62: compute raises (an unreadable file in _hash_files or
\* _lock_file_hashes, a probe that cannot be launched): nothing is written.
FingerprintComputeRaises ==
    /\ pc = "fingerprint"
    /\ Unhandled("fingerprint", "compute")
    /\ UNCHANGED <<args, ok, world, now, sinks, fpvars, loopvars, total_duration_ms,
                   metricvars, storevars, matcher_log, graph_written, at_start, apivars>>

\* Line 62: write_json raises after compute returned: no snapshot is written.
FingerprintWriteRaises ==
    /\ pc = "fingerprint"
    /\ fp_log' = Append(fp_log, [world |-> world, configuration |-> args.configuration,
                                  time |-> now,
                                  fingerprint |-> Compute(world, args.configuration, now).fingerprint])
    /\ Unhandled("fingerprint", "write")
    /\ UNCHANGED <<args, ok, world, now, sinks, fingerprint, fp_file, loopvars,
                   total_duration_ms, metricvars, storevars, matcher_log, graph_written,
                   at_start, apivars>>

\* Lines 120, 132: opening the store or record_build raises (sqlite3.Error).
RecordBuildRaises ==
    /\ pc = "record_build"
    /\ \E op \in {"open", "record_build"} : Unhandled("history", op)
    /\ UNCHANGED <<args, ok, world, now, sinks, fpvars, loopvars, total_duration_ms,
                   metricvars, storevars, matcher_log, graph_written, at_start, apivars>>

\* Line 134: record_phase raises; the rows inserted before it stay.
RecordPhaseRaises ==
    /\ pc = "record_phase"
    /\ phase_k <= Len(phase_durations)
    /\ Unhandled("history", "record_phase")
    /\ UNCHANGED <<args, ok, world, now, sinks, fpvars, loopvars, total_duration_ms,
                   metricvars, storevars, matcher_log, graph_written, at_start, apivars>>

\* Line 136: average_duration raises inside anomaly_warning.
AverageDurationRaises ==
    /\ pc = "record_phase"
    /\ phase_k > Len(phase_durations)
    /\ Unhandled("history", "average_duration")
    /\ UNCHANGED <<args, ok, world, now, sinks, fpvars, loopvars, total_duration_ms,
                   metricvars, storevars, matcher_log, graph_written, at_start, apivars>>

\* run_build with collaborators that may raise.
NextFaults ==
    \/ Next
    \/ FingerprintComputeRaises
    \/ FingerprintWriteRaises
    \/ RecordBuildRaises
    \/ RecordPhaseRaises
    \/ AverageDurationRaises

SpecFaults == Init /\ [][NextFaults]_vars

\* ------------------------------------------------------- sinks that raise
\* emit when the append to one sink raises (the file cannot be opened or
\* written): _write_event (events.py, lines 45-48) writes the journal first and
\* the human log second, with no try/except, and emit prints after it (lines
\* 95-97). An error on the journal leaves before the human log is opened; an
\* error on the human log leaves with the journal line written; in both cases
\* the print is not reached and the exception leaves run_build.
EmitRaising(sink, phase, event_type, duration_ms, context, error_code, error_message, tags) ==
    LET ev == BuildEvent(next_uuid, now, phase, event_type, duration_ms, context,
                         error_code, error_message, tags)
    IN /\ next_uuid' = next_uuid + 1
       /\ journal' = IF sink = "jsonl" THEN journal ELSE Append(journal, ev)
       /\ human_log' = human_log
       /\ console' = console
       /\ raised' = Some([component |-> "emitter", op |-> sink, event |-> ev])
       /\ exit_code' = Some(1)
       /\ pc' = "crashed"

\* Line 80: the emit of the started event raises.
PhaseStartedRaises ==
    /\ pc = "phase_start"
    /\ phase_idx <= Len(Phases(args))
    /\ \E sink \in {"jsonl", "human"} :
          EmitRaising(sink, Phases(args)[phase_idx], "started", None, None, None, None,
                      <<Phases(args)[phase_idx]>>)
    /\ UNCHANGED <<args, ok, world, now, fpvars, loopvars, total_duration_ms, metricvars,
                   storevars, matcher_log, graph_written, at_start, apivars>>

\* Lines 102-110: the emit of the aggregate build event raises.
PostRunRaises ==
    /\ pc = "post"
    /\ \E elapsed \in TotalElapsedUs, sink \in {"jsonl", "human"} :
          /\ total_duration_ms' = Some(ToMs(elapsed))
          /\ EmitRaising(sink, "build", IF success THEN "completed" ELSE "failed",
                         Some(ToMs(elapsed)), Some([log |-> "logfile"]), None, None,
                         <<"summary">>)
    /\ UNCHANGED <<args, ok, world, now, fpvars, loopvars, metricvars, storevars,
                   matcher_log, graph_written, at_start, apivars>>

NextSinks ==
    \/ Next
    \/ PhaseStartedRaises
    \/ PostRunRaises

SpecSinks == Init /\ [][NextSinks]_vars

\* --------------------------------------------- components used on their own
\* The process state of a caller that uses one component through its
\* interface: no build run is in progress, no file of a run exists.
NoRun ==
    /\ args \in {a \in Args : ~a.skip_preflight /\ ~a.force /\ ~a.with_tests /\ ~a.generate_graph
                              /\ a.verbosity = "normal"}
    /\ ok = None
    /\ world = PriorWorld
    /\ now = 1
    /\ next_uuid = 1
    /\ journal = <<>>
    /\ human_log = <<>>
    /\ console = <<>>
    /\ fingerprint = None
    /\ fp_file = None
    /\ fp_log = <<>>
    /\ phase_idx = 1
    /\ invoked = <<>>
    /\ phase_durations = <<>>
    /\ phase_success = <<>>
    /\ success = TRUE
    /\ error_output = {}
    /\ total_duration_ms = None
    /\ build_id = None
    /\ phase_k = 1
    /\ matcher_log = <<>>
    /\ graph_written = FALSE
    /\ raised = None
    /\ exit_code = None

\* ------------------------------------------------- the history store's interface
\* The records a caller passes to record_build.
Records ==
    {BuildRecord("fp", ts, d, s, "Release") : ts \in {1, 2}, d \in {0, 1000}, s \in BOOLEAN}
\* The limits a caller passes to recent_builds.
Limits == (-1)..MaxLimit

\* A BuildHistory on an absent or an existing history.db.
InitStore ==
    /\ NoRun
    /\ pc = "api"
    /\ builds \in {<<>>, PriorBuilds}
    /\ build_phases = <<>>
    /\ metrics_json = None
    /\ metrics_prom = None
    /\ metrics = <<>>
    /\ patterns = <<>>
    /\ knowledge = {}
    /\ knowledge_exists = TRUE
    /\ procs = <<>>
    /\ api_log = <<>>
    /\ at_start = [journal |-> journal, fp_file |-> fp_file, metrics_json |-> metrics_json,
                    metrics_prom |-> metrics_prom, builds |-> builds,
                    build_phases |-> build_phases]

\* record_build(r): one row under a new id, the id returned.
ApiRecordBuild ==
    /\ pc = "api"
    /\ Len(api_log) < MaxCalls
    /\ \E r \in Records :
          /\ builds' = Append(builds, BuildRow(LastRowId(builds), r))
          /\ api_log' = Append(api_log, [op |-> "record_build", arg |-> r, store |-> builds,
                                         result |-> LastRowId(builds)])
    /\ UNCHANGED <<pc, args, ok, world, now, sinks, fpvars, loopvars, total_duration_ms,
                   metricvars, build_phases, build_id, phase_k, matcher_log, graph_written,
                   at_start, raised, metrics, patterns,
                   knowledge,
                   knowledge_exists, procs, exit_code>>

\* recent_builds(limit).
ApiRecentBuilds ==
    /\ pc = "api"
    /\ Len(api_log) < MaxCalls
    /\ \E limit \in Limits :
          api_log' = Append(api_log, [op |-> "recent_builds", arg |-> limit, store |-> builds,
                                      result |-> RecentBuilds(builds, limit)])
    /\ UNCHANGED <<pc, args, ok, world, now, sinks, fpvars, loopvars, total_duration_ms,
                   metricvars, storevars, matcher_log, graph_written, at_start, raised,
                   metrics, patterns, knowledge,
                   knowledge_exists, procs, exit_code>>

\* average_duration().
ApiAverageDuration ==
    /\ pc = "api"
    /\ Len(api_log) < MaxCalls
    /\ api_log' = Append(api_log, [op |-> "average_duration", arg |-> None, store |-> builds,
                                   result |-> AverageDuration(builds)])
    /\ UNCHANGED <<pc, args, ok, world, now, sinks, fpvars, loopvars, total_duration_ms,
                   metricvars, storevars, matcher_log, graph_written, at_start, raised,
                   metrics, patterns, knowledge,
                   knowledge_exists, procs, exit_code>>

NextStore ==
    \/ ApiRecordBuild
    \/ ApiRecentBuilds
    \/ ApiAverageDuration

SpecStore == InitStore /\ [][NextStore]_vars

\* ------------------------------------------------ anomaly_warning on its own
\* The durations a caller passes to anomaly_warning.
AnomalyDurations == {1000, 1499, 1500, 1501}

\* anomaly_warning(history, d): the mean is read, the warning printed or not.
ApiAnomalyWarning ==
    /\ pc = "api"
    /\ Len(api_log) < MaxCalls
    /\ \E d \in AnomalyDurations :
          /\ console' = IF AnomalyWarning(builds, d)
                        THEN Append(console, [kind |-> "text",
                                 text |-> "Warning: build duration exceeds historical average."])
                        ELSE console
          /\ api_log' = Append(api_log, [op |-> "anomaly_warning", arg |-> d, store |-> builds,
                                         avg |-> AverageDuration(builds),
                                         result |-> Len(console') - Len(console)])
    /\ UNCHANGED <<pc, args, ok, world, now, next_uuid, journal, human_log, fpvars, loopvars,
                   total_duration_ms, metricvars, storevars, matcher_log, graph_written,
                   at_start, raised, metrics, patterns, knowledge, knowledge_exists, procs,
                   exit_code>>

NextAnomaly ==
    \/ ApiRecordBuild
    \/ ApiAnomalyWarning

SpecAnomaly == InitStore /\ [][NextAnomaly]_vars

\* ------------------------------------------------ the history store, restarted
\* A history.db that is absent, or was left by an earlier process with a build
\* and its phase rows.
InitRestart ==
    /\ NoRun
    /\ pc = "api"
    /\ \E used \in BOOLEAN :
          /\ builds = IF used THEN PriorBuilds ELSE <<>>
          /\ build_phases = IF used THEN PriorPhases ELSE <<>>
    /\ metrics_json = None
    /\ metrics_prom = None
    /\ metrics = <<>>
    /\ patterns = <<>>
    /\ knowledge = {}
    /\ knowledge_exists = TRUE
    /\ procs = <<>>
    /\ api_log = <<>>
    /\ at_start = [journal |-> journal, fp_file |-> fp_file, metrics_json |-> metrics_json,
                    metrics_prom |-> metrics_prom, builds |-> builds,
                    build_phases |-> build_phases]

\* BuildHistory(db_path) dropping and recreating the tables.
ApiConstructRecreating ==
    /\ pc = "api"
    /\ Len(api_log) < MaxCalls
    /\ builds' = <<>>
    /\ build_phases' = <<>>
    /\ api_log' = Append(api_log, [op |-> "construct", arg |-> None, store |-> builds,
                                   result |-> None])
    /\ UNCHANGED <<pc, args, ok, world, now, sinks, fpvars, loopvars, total_duration_ms,
                   metricvars, build_id, phase_k, matcher_log, graph_written, at_start,
                   raised, metrics, patterns, knowledge, knowledge_exists, procs, exit_code>>

\* BuildHistory(db_path), in this or in a new process: _init_db runs CREATE
\* TABLE IF NOT EXISTS for the three tables; no row is read or written.
ApiConstruct ==
    /\ pc = "api"
    /\ Len(api_log) < MaxCalls
    /\ api_log' = Append(api_log, [op |-> "construct", arg |-> None, store |-> builds,
                                   result |-> None])
    /\ UNCHANGED <<pc, args, ok, world, now, sinks, fpvars, loopvars, total_duration_ms,
                   metricvars, storevars, matcher_log, graph_written, at_start, raised,
                   metrics, patterns, knowledge, knowledge_exists, procs, exit_code>>

\* record_phase(build_id, phase, duration_ms, success) for a build of the store.
ApiRecordPhase ==
    /\ pc = "api"
    /\ Len(api_log) < MaxCalls
    /\ \E i \in 1..Len(builds), succeeded \in BOOLEAN :
          /\ build_phases' = Append(build_phases, PhaseRow(builds[i].id, "build", 5, succeeded))
          /\ api_log' = Append(api_log, [op |-> "record_phase",
                                         arg |-> <<builds[i].id, "build", 5, succeeded>>,
                                         store |-> builds, result |-> None])
    /\ UNCHANGED <<pc, args, ok, world, now, sinks, fpvars, loopvars, total_duration_ms,
                   metricvars, builds, build_id, phase_k, matcher_log, graph_written, at_start,
                   raised, metrics, patterns, knowledge, knowledge_exists, procs, exit_code>>

NextRestart ==
    \/ ApiConstruct
    \/ ApiRecordBuild
    \/ ApiRecordPhase
    \/ ApiRecentBuilds
    \/ ApiAverageDuration

SpecRestart == InitRestart /\ [][NextRestart]_vars

\* ------------------------------------------- the metrics collector's interface
\* The names and the values a caller records: "a.b" and "a_b" differ as names
\* and have the same sanitized form.
MetricNames == {<<"x">>, <<"a", "b">>, <<"a_b">>}
MetricValues == 1..2

\* A new MetricsCollector (metrics.py, lines 7-10) on an output directory
\* without metrics files or with those of an earlier run.
InitMetrics ==
    /\ NoRun
    /\ pc = "api"
    /\ builds = <<>>
    /\ build_phases = <<>>
    /\ \E used \in BOOLEAN :
          /\ metrics_json = IF used THEN Some(MetricsJson(PriorMetrics)) ELSE None
          /\ metrics_prom = IF used THEN Some(MetricsProm(PriorMetrics)) ELSE None
    /\ metrics = <<>>
    /\ patterns = <<>>
    /\ knowledge = {}
    /\ knowledge_exists = TRUE
    /\ procs = <<>>
    /\ api_log = <<>>
    /\ at_start = [journal |-> journal, fp_file |-> fp_file, metrics_json |-> metrics_json,
                    metrics_prom |-> metrics_prom, builds |-> builds,
                    build_phases |-> build_phases]

\* record(name, value).
ApiRecord ==
    /\ pc = "api"
    /\ Len(api_log) < MaxCalls
    /\ \E name \in MetricNames, value \in MetricValues :
          /\ metrics' = MetricsRecord(metrics, name, value)
          /\ api_log' = Append(api_log, [op |-> "record", arg |-> <<name, value>>])
    /\ UNCHANGED <<pc, args, ok, world, now, sinks, fpvars, loopvars, total_duration_ms,
                   metricvars, storevars, matcher_log, graph_written, at_start, raised,
                   patterns, knowledge,
                   knowledge_exists, procs, exit_code>>

\* write(): both files are written anew from the dict.
ApiWrite ==
    /\ pc = "api"
    /\ Len(api_log) < MaxCalls
    /\ metrics_json' = Some(MetricsJson(metrics))
    /\ metrics_prom' = Some(MetricsProm(metrics))
    /\ api_log' = Append(api_log, [op |-> "write", json |-> MetricsJson(metrics),
                                   prom |-> MetricsProm(metrics)])
    /\ UNCHANGED <<pc, args, ok, world, now, sinks, fpvars, loopvars, total_duration_ms,
                   storevars, matcher_log, graph_written, at_start, raised, metrics,
                   patterns, knowledge,
                   knowledge_exists, procs, exit_code>>

NextMetrics ==
    \/ ApiRecord
    \/ ApiWrite

SpecMetrics == InitMetrics /\ [][NextMetrics]_vars

\* ------------------------------------------- two runs on one history store
\* Two build runs, in two processes, that have finished their phase loops and
\* share history.db. Run p read the clock at p; its phases took p, 10 + p and
\* 20 + p ms, so that a row tells which run inserted it.
RunDurations(p, with_tests) ==
    IF with_tests THEN << <<"restore", p>>, <<"build", 10 + p>>, <<"test", 20 + p>> >>
    ELSE << <<"restore", p>>, <<"build", 10 + p>> >>
RunRecord(p, succeeded) == BuildRecord("fp", p, 1000 * p, succeeded, "Release")
Runs == {1, 2}

InitConcurrentStore ==
    /\ NoRun
    /\ pc = "concurrent"
    /\ \E used \in BOOLEAN :
          /\ builds = IF used THEN PriorBuilds ELSE <<>>
          /\ build_phases = IF used THEN PriorPhases ELSE <<>>
    /\ metrics_json = None
    /\ metrics_prom = None
    /\ metrics = <<>>
    /\ patterns = <<>>
    /\ knowledge = {}
    /\ knowledge_exists = TRUE
    /\ \E tests \in [Runs -> BOOLEAN], succ \in [Runs -> BOOLEAN] :
          procs = [p \in Runs |->
                     [pc |-> "record_build", build_id |-> None, k |-> 1,
                      durations |-> RunDurations(p, tests[p]), succeeded |-> succ[p]]]
    /\ api_log = <<>>
    /\ at_start = [journal |-> journal, fp_file |-> fp_file, metrics_json |-> metrics_json,
                    metrics_prom |-> metrics_prom, builds |-> builds,
                    build_phases |-> build_phases]

\* The build id run p passes to record_phase, taken as the largest id in the
\* table when the phase is recorded.
LatestBuildId(p) == MaxId(builds)

\* The build id run p passes to record_phase: the one its own record_build
\* returned (buildctl.py, lines 132-134).
OwnBuildId(p) == procs[p].build_id[1]

\* Lines 120-132 in one of the runs: the INSERT of record_build is one SQLite
\* transaction, and lastrowid is that of the run's own connection.
ConcRecordBuild ==
    /\ pc = "concurrent"
    /\ \E p \in Runs :
          /\ procs[p].pc = "record_build"
          /\ builds' = Append(builds, BuildRow(LastRowId(builds), RunRecord(p, procs[p].succeeded)))
          /\ procs' = [procs EXCEPT ![p].build_id = Some(LastRowId(builds)),
                                    ![p].pc = "record_phase"]
    /\ UNCHANGED <<pc, args, ok, world, now, sinks, fpvars, loopvars, total_duration_ms,
                   metricvars, build_phases, build_id, phase_k, matcher_log, graph_written,
                   at_start, raised, metrics, patterns, knowledge, knowledge_exists, api_log,
                   exit_code>>

\* Lines 133-134 in one of the runs: one record_phase, one transaction.
ConcRecordPhase ==
    /\ pc = "concurrent"
    /\ \E p \in Runs :
          LET r == procs[p]
          IN /\ r.pc = "record_phase"
             /\ build_phases' = Append(build_phases,
                    PhaseRow(OwnBuildId(p), r.durations[r.k][1], r.durations[r.k][2], TRUE))
             /\ procs' = [procs EXCEPT ![p].k = r.k + 1,
                                       ![p].pc = IF r.k = Len(r.durations) THEN "done"
                                                 ELSE "record_phase"]
    /\ UNCHANGED <<pc, args, ok, world, now, sinks, fpvars, loopvars, total_duration_ms,
                   metricvars, builds, build_id, phase_k, matcher_log, graph_written,
                   at_start, raised, metrics, patterns, knowledge, knowledge_exists, api_log,
                   exit_code>>

NextConcurrentStore ==
    \/ ConcRecordBuild
    \/ ConcRecordPhase

SpecConcurrentStore == InitConcurrentStore /\ [][NextConcurrentStore]_vars

\* ------------------------------------------- two runs on one event journal
\* What run p emits: its events carry ids of its own (uuid4) and its clock.
RunEmits(p, fails) ==
    IF fails
    THEN << BuildEvent(100 * p + 1, p, "restore", "started", None, None, None, None, <<"restore">>),
            BuildEvent(100 * p + 2, p, "restore", "failed", Some(p), None, Some("PHASE_FAILED"),
                       Some(<<"restore failed">>), <<"restore">>),
            BuildEvent(100 * p + 3, p, "build", "failed", Some(p), None, Some("BUILD_FAILED"),
                       None, <<"build">>) >>
    ELSE << BuildEvent(100 * p + 1, p, "restore", "started", None, None, None, None, <<"restore">>),
            BuildEvent(100 * p + 2, p, "restore", "completed", Some(p), None, None, None,
                       <<"restore">>) >>

InitConcurrentJournal ==
    /\ args \in {a \in Args : ~a.skip_preflight /\ ~a.force /\ ~a.with_tests /\ ~a.generate_graph
                              /\ a.verbosity = "normal"}
    /\ pc = "concurrent"
    /\ ok = None /\ world = PriorWorld /\ now = 1 /\ next_uuid = 1
    /\ \E used \in BOOLEAN :
          /\ journal = IF used THEN PriorJournal ELSE <<>>
          /\ human_log = IF used THEN [i \in 1..Len(PriorJournal) |-> FormatHuman(PriorJournal[i])]
                         ELSE <<>>
    /\ console = <<>>
    /\ fingerprint = None /\ fp_file = None /\ fp_log = <<>>
    /\ phase_idx = 1 /\ invoked = <<>> /\ phase_durations = <<>> /\ phase_success = <<>>
    /\ success = TRUE /\ error_output = {} /\ total_duration_ms = None
    /\ metrics_json = None /\ metrics_prom = None
    /\ builds = <<>> /\ build_phases = <<>> /\ build_id = None /\ phase_k = 1
    /\ matcher_log = <<>> /\ graph_written = FALSE /\ raised = None
    /\ metrics = <<>> /\ patterns = <<>> /\ knowledge = {} /\ knowledge_exists = TRUE
    /\ \E fails \in [Runs -> BOOLEAN] :
          procs = [p \in Runs |->
                     [pc |-> "open", k |-> 1, events |-> RunEmits(p, fails[p]), handle |-> None]]
    /\ api_log = <<>>
    /\ exit_code = None
    /\ at_start = [journal |-> journal, fp_file |-> fp_file, metrics_json |-> metrics_json,
                    metrics_prom |-> metrics_prom, builds |-> builds,
                    build_phases |-> build_phases]

\* A write through a handle that keeps the position it had when opened: the
\* line lands at that offset, over what was written there since.
WriteAtOffset(file, offset, line) ==
    [i \in 1..(IF Len(file) > offset THEN Len(file) ELSE offset + 1) |->
        IF i = offset + 1 THEN line ELSE file[i]]

\* A write through a handle opened with mode "a" (O_APPEND): whatever the
\* position of the handle, the line lands at the end the file has at the time
\* of the write.
WriteAppend(file, offset, line) == Append(file, line)

\* _write_event, line 45: the journal is opened; the handle's position is the
\* end of the file as it is now.
JournalOpen ==
    /\ pc = "concurrent"
    /\ \E p \in Runs :
          /\ procs[p].pc = "open"
          /\ procs' = [procs EXCEPT ![p].handle = Some(Len(journal)), ![p].pc = "write"]
    /\ UNCHANGED <<pc, args, ok, world, now, sinks, fpvars, loopvars, total_duration_ms,
                   metricvars, storevars, matcher_log, graph_written, at_start, raised,
                   metrics, patterns, knowledge, knowledge_exists, api_log, exit_code>>

\* _write_event, line 46 and the end of the with block: the line, buffered by
\* handle.write, reaches the file in the one write made when the handle closes.
JournalWrite ==
    /\ pc = "concurrent"
    /\ \E p \in Runs :
          LET r == procs[p]
          IN /\ r.pc = "write"
             /\ journal' = WriteAppend(journal, r.handle[1], r.events[r.k])
             /\ procs' = [procs EXCEPT ![p].handle = None, ![p].pc = "human"]
    /\ UNCHANGED <<pc, args, ok, world, now, next_uuid, human_log, console, fpvars, loopvars,
                   total_duration_ms, metricvars, storevars, matcher_log, graph_written,
                   at_start, raised, metrics, patterns, knowledge, knowledge_exists, api_log,
                   exit_code>>

\* _write_event, lines 47-48: the human log line (appended in the same way);
\* the run then goes on to its next event.
HumanLogWrite ==
    /\ pc = "concurrent"
    /\ \E p \in Runs :
          LET r == procs[p]
          IN /\ r.pc = "human"
             /\ human_log' = Append(human_log, FormatHuman(r.events[r.k]))
             /\ procs' = [procs EXCEPT ![p].k = r.k + 1,
                                       ![p].pc = IF r.k = Len(r.events) THEN "done" ELSE "open"]
    /\ UNCHANGED <<pc, args, ok, world, now, next_uuid, journal, console, fpvars, loopvars,
                   total_duration_ms, metricvars, storevars, matcher_log, graph_written,
                   at_start, raised, metrics, patterns, knowledge, knowledge_exists, api_log,
                   exit_code>>

NextConcurrentJournal ==
    \/ JournalOpen
    \/ JournalWrite
    \/ HumanLogWrite

SpecConcurrentJournal == InitConcurrentJournal /\ [][NextConcurrentJournal]_vars

\* --------------------------------------------- the error matcher's interface
\* The units of the knowledge files: one with two patterns, one with one, one
\* with an entry without pattern and a pattern of the first unit.
Units ==
    { [error_code |-> "CS0246", severity |-> "error", patterns |-> <<"CS0246", "type or namespace">>],
      [error_code |-> "NU1101", severity |-> "error", patterns |-> <<"NU1101">>],
      [error_code |-> "GENERIC", severity |-> "warning", patterns |-> <<"", "CS0246">>] }
\* The file k.json of the knowledge directory is named by k: sorted() orders
\* the names as the numbers are ordered.
FileNames == 1..MaxFiles
\* The knowledge directories: each file name at most once.
Dirs == {d \in SUBSET (FileNames \X Units) : \A f, g \in d : f[1] = g[1] => f = g}
\* The outputs given to match, as the sets of the texts found in them.
MatchOutputs ==
    { {}, {"NU1101"}, {"CS0246", "type or namespace"}, {"CS0246", "NU1101"} }

\* Before ErrorMatcher(knowledge_dir) is constructed.
InitMatcher ==
    /\ NoRun
    /\ pc = "new"
    /\ builds = <<>>
    /\ build_phases = <<>>
    /\ metrics_json = None
    /\ metrics_prom = None
    /\ metrics = <<>>
    /\ patterns = <<>>
    /\ knowledge_exists \in BOOLEAN
    /\ knowledge \in IF knowledge_exists THEN Dirs ELSE {{}}
    /\ procs = <<>>
    /\ api_log = <<>>
    /\ at_start = [journal |-> journal, fp_file |-> fp_file, metrics_json |-> metrics_json,
                    metrics_prom |-> metrics_prom, builds |-> builds,
                    build_phases |-> build_phases]

\* ErrorMatcher.__init__: the units are loaded (lines 15-16: none when the
\* directory does not exist); every file is read and parsed.
ApiLoad ==
    /\ pc = "new"
    /\ \A f \in knowledge : f[2] # Malformed
    /\ patterns' = IF knowledge_exists THEN LoadPatterns(knowledge) ELSE <<>>
    /\ pc' = "api"
    /\ UNCHANGED <<args, ok, world, now, sinks, fpvars, loopvars, total_duration_ms,
                   metricvars, storevars, matcher_log, graph_written, at_start, raised,
                   metrics, knowledge,
                   knowledge_exists, procs, api_log, exit_code>>

\* match(output).
ApiMatch ==
    /\ pc = "api"
    /\ Len(api_log) < MaxCalls
    /\ \E output \in MatchOutputs :
          api_log' = Append(api_log, [op |-> "match", arg |-> output,
                                      result |-> Match(patterns, output)])
    /\ UNCHANGED <<pc, args, ok, world, now, sinks, fpvars, loopvars, total_duration_ms,
                   metricvars, storevars, matcher_log, graph_written, at_start, raised,
                   metrics, patterns, knowledge,
                   knowledge_exists, procs, exit_code>>

NextMatcher ==
    \/ ApiLoad
    \/ ApiMatch

SpecMatcher == InitMatcher /\ [][NextMatcher]_vars

\* ----------------------------------------------- knowledge files that raise
\* The knowledge directories in which files may be unreadable or malformed.
FaultyDirs ==
    {d \in SUBSET (FileNames \X (Units \cup {Malformed})) : \A f, g \in d : f[1] = g[1] => f = g}

InitMatcherFaults ==
    /\ NoRun
    /\ pc = "new"
    /\ builds = <<>>
    /\ build_phases = <<>>
    /\ metrics_json = None
    /\ metrics_prom = None
    /\ metrics = <<>>
    /\ patterns = <<>>
    /\ knowledge_exists \in BOOLEAN
    /\ knowledge \in IF knowledge_exists THEN FaultyDirs ELSE {{}}
    /\ procs = <<>>
    /\ api_log = <<>>
    /\ at_start = [journal |-> journal, fp_file |-> fp_file, metrics_json |-> metrics_json,
                    metrics_prom |-> metrics_prom, builds |-> builds,
                    build_phases |-> build_phases]

\* _load_patterns, line 18: path.read_text or json.loads raises on a file
\* (OSError, UnicodeDecodeError, json.JSONDecodeError); nothing catches it, so
\* the constructor raises and there is no matcher.
ApiLoadRaises ==
    /\ pc = "new"
    /\ \E f \in knowledge : f[2] = Malformed
    /\ raised' = Some([component |-> "matcher", op |-> "_load_patterns"])
    /\ pc' = "crashed"
    /\ UNCHANGED <<args, ok, world, now, sinks, fpvars, loopvars, total_duration_ms,
                   metricvars, storevars, matcher_log, graph_written, at_start, apivars,
                   exit_code>>

NextMatcherFaults ==
    \/ NextMatcher
    \/ ApiLoadRaises

SpecMatcherFaults == InitMatcherFaults /\ [][NextMatcherFaults]_vars

\* ------------------------------------------------ the fingerprint command
\* The process state of a shell in which `buildctl fingerprint` is run
\* repeatedly: no build run is in progress.
InitFingerprint ==
    /\ pc = "cli"
    /\ args \in {a \in Args : ~a.skip_preflight /\ ~a.force /\ ~a.with_tests /\ ~a.generate_graph
                              /\ a.verbosity = "normal"}
    /\ ok = None
    /\ world \in Worlds
    /\ now = 1
    /\ next_uuid = 1
    /\ journal = <<>>
    /\ human_log = <<>>
    /\ console = <<>>
    /\ fingerprint = None
    /\ fp_file = None
    /\ fp_log = <<>>
    /\ phase_idx = 1
    /\ invoked = <<>>
    /\ phase_durations = <<>>
    /\ phase_success = <<>>
    /\ success = TRUE
    /\ error_output = {}
    /\ total_duration_ms = None
    /\ metrics_json = None
    /\ metrics_prom = None
    /\ builds = <<>>
    /\ build_phases = <<>>
    /\ build_id = None
    /\ phase_k = 1
    /\ matcher_log = <<>>
    /\ graph_written = FALSE
    /\ at_start = [journal |-> journal, fp_file |-> fp_file, metrics_json |-> metrics_json,
                    metrics_prom |-> metrics_prom, builds |-> builds,
                    build_phases |-> build_phases]
    /\ raised = None
    /\ metrics = <<>>
    /\ patterns = <<>>
    /\ knowledge = {}
    /\ knowledge_exists = TRUE
    /\ procs = <<>>
    /\ api_log = <<>>
    /\ exit_code = None

\* One of the three probes of compute raises: _git_tree_hash (line 42) and
\* _run_version (line 70) catch FileNotFoundError only.
ProbeRaises(w) == w.git = Denied \/ w.gitver = Denied \/ w.dotnet = Denied

\* run_fingerprint: the fingerprint is computed, written and printed.
RunFingerprint ==
    /\ pc = "cli"
    /\ ~ProbeRaises(world)
    /\ Len(fp_log) < MaxComputes
    /\ \E configuration \in Configurations :
          /\ FingerprintWrite(configuration)
          /\ console' = Append(console, [kind |-> "fingerprint",
                                          payload |-> Compute(world, configuration, now)])
    /\ exit_code' = Some(0)
    /\ UNCHANGED <<pc, args, ok, world, now, next_uuid, journal, human_log, loopvars, total_duration_ms, metricvars,
                   storevars, matcher_log, graph_written, at_start, raised, apivars>>

\* The wall clock advances by a millisecond.
Tick ==
    /\ pc = "cli"
    /\ now < MaxClock
    /\ now' = now + 1
    /\ UNCHANGED <<pc, args, ok, world, sinks, fpvars, loopvars, total_duration_ms, metricvars,
                   storevars, matcher_log, graph_written, at_start, raised, apivars, exit_code>>

NextFingerprint == RunFingerprint \/ Tick

SpecFingerprint == InitFingerprint /\ [][NextFingerprint]_vars

\* ------------------------------------------------------- probes that raise
\* The worlds in which dotnet, or git, is present and cannot be executed.
DeniedWorlds ==
    {[w EXCEPT !.dotnet = Denied] : w \in Worlds}
    \cup {[w EXCEPT !.git = Denied, !.gitver = Denied] : w \in Worlds}

InitProbeFaults ==
    /\ pc = "cli"
    /\ args \in {a \in Args : ~a.skip_preflight /\ ~a.force /\ ~a.with_tests /\ ~a.generate_graph
                              /\ a.verbosity = "normal"}
    /\ ok = None
    /\ world \in Worlds \cup DeniedWorlds
    /\ now = 1
    /\ next_uuid = 1
    /\ journal = <<>>
    /\ human_log = <<>>
    /\ console = <<>>
    /\ fingerprint = None
    /\ fp_file = None
    /\ fp_log = <<>>
    /\ phase_idx = 1
    /\ invoked = <<>>
    /\ phase_durations = <<>>
    /\ phase_success = <<>>
    /\ success = TRUE
    /\ error_output = {}
    /\ total_duration_ms = None
    /\ metrics_json = None
    /\ metrics_prom = None
    /\ builds = <<>>
    /\ build_phases = <<>>
    /\ build_id = None
    /\ phase_k = 1
    /\ matcher_log = <<>>
    /\ graph_written = FALSE
    /\ at_start = [journal |-> journal, fp_file |-> fp_file, metrics_json |-> metrics_json,
                    metrics_prom |-> metrics_prom, builds |-> builds,
                    build_phases |-> build_phases]
    /\ raised = None
    /\ metrics = <<>>
    /\ patterns = <<>>
    /\ knowledge = {}
    /\ knowledge_exists = TRUE
    /\ procs = <<>>
    /\ api_log = <<>>
    /\ exit_code = None

\* run_fingerprint when a probe raises: the error leaves compute, write and
\* run_fingerprint; nothing is written or printed.
RunFingerprintRaises ==
    /\ pc = "cli"
    /\ ProbeRaises(world)
    /\ Unhandled("fingerprint", "compute")
    /\ UNCHANGED <<args, ok, world, now, sinks, fpvars, loopvars, total_duration_ms,
                   metricvars, storevars, matcher_log, graph_written, at_start, apivars>>

NextProbeFaults ==
    \/ RunFingerprint
    \/ Tick
    \/ RunFingerprintRaises

SpecProbeFaults == InitProbeFaults /\ [][NextProbeFaults]_vars

\* ------------------------------------------------------------------ claims
PhaseNames == {"restore", "build", "test"}
\* A phase event carries its phase as its only tag; the aggregate build event
\* has phase "build" too, and the tag "summary".
IsPhaseEvent(e) == e.phase \in PhaseNames /\ e.tags = <<e.phase>>
IsAggregate(e) == e.phase = "build" /\ e.tags = <<"summary">>
Kind(e) == <<e.phase, e.event_type, e.tags>>
KindsOf(events) == [i \in 1..Len(events) |-> Kind(events[i])]
RunPhaseEvents == SelectSeq(RunEvents, IsPhaseEvent)
IsPrefix(a, b) == Len(a) <= Len(b) /\ SubSeq(b, 1, Len(a)) = a
Failed(call) == call.exit_code # 0
SomeFailed == \E i \in 1..Len(invoked) : Failed(invoked[i])
Terminal(call) == IF Failed(call) THEN "failed" ELSE "completed"

RECURSIVE PhasePairs(_)
\* The started and the terminal event of each adapter call, in call order.
PhasePairs(calls) ==
    IF calls = <<>> THEN <<>>
    ELSE << <<Head(calls).phase, "started", <<Head(calls).phase>>>>,
            <<Head(calls).phase, Terminal(Head(calls)), <<Head(calls).phase>>>> >>
         \o PhasePairs(Tail(calls))

\* The calls of a run in which every configured phase returns 0.
AllZero(phases) == [i \in 1..Len(phases) |-> [phase |-> phases[i], exit_code |-> 0]]

\* C1: the phases are invoked in list order; after a call that returns a
\* non-zero exit code no later phase is invoked and no phase event of a later
\* phase is emitted; with restore ok and build failed the run ends with exactly
\* the two event pairs of restore and build.
C1_ShortCircuit ==
    /\ Len(invoked) <= Len(Phases(args))
    /\ \A i \in 1..Len(invoked) : invoked[i].phase = Phases(args)[i]
    /\ \A i \in 1..Len(invoked) :
          Failed(invoked[i]) =>
             /\ i = Len(invoked)
             /\ \A j \in (i + 1)..Len(Phases(args)), k \in 1..Len(RunPhaseEvents) :
                   RunPhaseEvents[k].phase # Phases(args)[j]
    /\ (pc = "done" /\ Len(invoked) = 2 /\ ~Failed(invoked[1]) /\ Failed(invoked[2]))
          => KindsOf(RunPhaseEvents) =
                << <<"restore", "started", <<"restore">>>>, <<"restore", "completed", <<"restore">>>>,
                   <<"build", "started", <<"build">>>>, <<"build", "failed", <<"build">>>> >>

\* C1 witness: a run with tests ended after restore succeeded and build failed.
C1_Witness ==
    /\ pc = "done" /\ args.with_tests
    /\ Len(invoked) = 2 /\ ~Failed(invoked[1]) /\ Failed(invoked[2])

\* The events of a run whose preflight passes and whose phases all return 0.
AllSuccessKinds ==
    << <<"preflight", "completed", <<"preflight">>>>, <<"fingerprint", "completed", <<>>>> >>
    \o PhasePairs(AllZero(Phases(args)))
    \o << <<"build", "completed", <<"summary">>>> >>

\* C2: a run whose preflight is executed and passes and whose N phases all
\* return 0 appends exactly 2 + 2N + 1 events: preflight, fingerprint, a
\* started and a completed event per phase in order, the aggregate build event
\* last; while it runs the events appear in that order.
C2_EventOrder ==
    (ok = Some(TRUE) /\ ~SomeFailed) =>
        /\ IsPrefix(at_start.journal, journal)
        /\ IsPrefix(KindsOf(RunEvents), AllSuccessKinds)
        /\ (pc = "done" /\ Len(invoked) = Len(Phases(args))) =>
              /\ Len(RunEvents) = 2 + 2 * Len(Phases(args)) + 1
              /\ KindsOf(RunEvents) = AllSuccessKinds

\* C2 witness: an all-success run of three phases on a used journal has ended.
C2_Witness ==
    /\ pc = "done" /\ ok = Some(TRUE) /\ ~SomeFailed
    /\ Len(invoked) = 3 /\ at_start.journal # <<>> /\ Len(RunEvents) = 9

Aborted == ok = Some(FALSE) /\ ~args.force

\* C4: when preflight ran, is not ok and --force is not given, the run is over
\* with exit code 2 and exactly one event, preflight failed; no fingerprint was
\* computed or written, no adapter called, no metrics written, no row inserted.
C4_PreflightAbort ==
    Aborted =>
        /\ pc = "done" /\ exit_code = Some(2)
        /\ IsPrefix(at_start.journal, journal)
        /\ KindsOf(RunEvents) = << <<"preflight", "failed", <<"preflight">>>> >>
        /\ fingerprint = None /\ fp_log = <<>> /\ fp_file = at_start.fp_file
        /\ invoked = <<>>
        /\ metrics_json = at_start.metrics_json /\ metrics_prom = at_start.metrics_prom
        /\ builds = at_start.builds /\ build_phases = at_start.build_phases /\ build_id = None

\* C4 witness: an aborted run on an output directory an earlier run has used.
C4_Witness == Aborted /\ pc = "done" /\ at_start.builds # <<>> /\ Len(RunEvents) = 1

\* The events of a run after its preflight event: fingerprint, the pairs of
\* the adapter calls made, the aggregate build event.
PastPreflightKinds ==
    << <<"fingerprint", "completed", <<>>>> >>
    \o PhasePairs(invoked)
    \o << <<"build", IF SomeFailed THEN "failed" ELSE "completed", <<"summary">>>> >>

ExpectedMetricsJson ==
    {<<JsonKey(<<"build", "duration_ms">>), total_duration_ms[1]>>,
     <<JsonKey(<<"build", "success">>), IF SomeFailed THEN 0 ELSE 1>>}
    \cup {<<JsonKey(<<"build", "phase", phase_durations[i][1], "duration_ms">>), phase_durations[i][2]>> :
            i \in 1..Len(phase_durations)}

StoreRaised == raised # None /\ raised[1].component = "history"
FingerprintRaised == raised # None /\ raised[1].component = "fingerprint"

\* C8: an error raised by the history store (opening it, record_build,
\* record_phase, average_duration) does not crash the run: the run ends with
\* exit code 0 when every phase succeeded and 1 when one failed, and after a
\* failed phase the matcher report is still produced.
C8_StoreFailureTolerated ==
    StoreRaised =>
        /\ pc # "crashed"
        /\ exit_code # None =>
              /\ exit_code = IF SomeFailed THEN Some(1) ELSE Some(0)
              /\ SomeFailed => Len(matcher_log) = 1

\* C9: an error raised while the fingerprint is computed or written is not
\* fatal: the run still emits the fingerprint event, runs the phase loop, and
\* ends with the exit code its phases determine.
C9_FingerprintFailureTolerated ==
    FingerprintRaised =>
        /\ pc # "crashed"
        /\ exit_code # None =>
              /\ \E k \in 1..Len(RunEvents) : RunEvents[k].phase = "fingerprint"
              /\ invoked # <<>>
              /\ exit_code = IF SomeFailed THEN Some(1) ELSE Some(0)

\* C10: two fingerprint computations on the same tree, tools, lock files,
\* environment and configuration give the same digest, whatever the clock.
C10_DigestDeterministic ==
    \A i, j \in 1..Len(fp_log) :
        (fp_log[i].world = fp_log[j].world /\ fp_log[i].configuration = fp_log[j].configuration)
            => fp_log[i].fingerprint = fp_log[j].fingerprint

\* The anomaly warning is on the console.
Warned ==
    \E i \in 1..Len(console) :
        /\ console[i].kind = "text"
        /\ console[i].text = "Warning: build duration exceeds historical average."
\* run_build is past line 136.
PastAnomaly == pc \in {"match", "finish", "done"} /\ build_id # None
\* duration_ms is more than 1.5 times the mean duration_ms of rows.
ExceedsMean(duration_ms, rows) == 2 * duration_ms * Len(rows) > 3 * SumDurations(rows)

\* C11: in a run whose store held builds before the run, the warning is
\* produced exactly when the run's total duration exceeds 1.5 times the mean
\* duration of the builds recorded before this run (mean 1000: produced at
\* 1600 ms, not produced at 1400 ms).
C11_AnomalyAgainstPriorMean ==
    (PastAnomaly /\ at_start.builds # <<>>) =>
        (Warned <=> ExceedsMean(total_duration_ms[1], at_start.builds))

\* What a finished run reports: its exit code, the type of its aggregate build
\* event, and the success column of the row it inserted.
RunOutcome ==
    << exit_code,
       SelectSeq(RunEvents, IsAggregate)[1].event_type,
       builds[Len(builds)].success >>
\* The same three, as the phase outcomes alone determine them.
OutcomeOf(calls) ==
    IF \E i \in 1..Len(calls) : Failed(calls[i])
    THEN <<Some(1), "failed", 0>>
    ELSE <<Some(0), "completed", 1>>

\* C12: the anomaly warning never affects the exit code: the exit code, the
\* aggregate build event type and the inserted BuildRecord.success of a run are
\* determined by its phase outcomes, the same whether the store's contents
\* make the run produce the warning or not.
C12_WarningIsAdvisory ==
    (pc = "done" /\ build_id # None) => RunOutcome = OutcomeOf(invoked)

\* C12 witness: a run that produced the warning and ended with exit code 0, as
\* the run with the same phase outcomes on a fresh store does.
C12_Witness ==
    /\ pc = "done" /\ Warned /\ at_start.builds # <<>>
    /\ RunOutcome = <<Some(0), "completed", 1>>

\* C13: within one process every step leaves the journal's earlier lines as
\* they were and in place, and adds exactly one line per emit call made by the
\* step (next_uuid counts the calls), the line of that call, at the end; a step
\* that emits nothing, the construction of the emitter included, leaves the
\* journal as it is.
C13_JournalAppendOnly ==
    [][ /\ IsPrefix(journal, journal')
        /\ Len(journal') = Len(journal) + (next_uuid' - next_uuid)
        /\ \A i \in (Len(journal) + 1)..Len(journal') :
              journal'[i].event_id = next_uuid + (i - Len(journal)) - 1 ]_vars

\* C13 witness: a finished run that emitted several events on an output
\* directory whose journal already had lines.
C13_Witness ==
    /\ pc = "done" /\ at_start.journal # <<>> /\ Len(RunEvents) >= 5
    /\ IsPrefix(at_start.journal, journal)

SinkRaised == raised # None /\ raised[1].component = "emitter"
\* The last line of a sink is the given one.
LastIs(sink, line) == sink # <<>> /\ sink[Len(sink)] = line
\* The echo of an event is the last console line, when verbosity requires it.
Echoed(ev) ==
    ShouldPrint(args.verbosity, ev.event_type) =>
        LastIs(console, [kind |-> "event", line |-> FormatHuman(ev)])

\* C14: in emit a failure writing one sink does not prevent writing the
\* others: when the journal append fails the event is still in the human log
\* and echoed when verbosity requires it; when the human-log append fails the
\* journal line stays and the echo still happens.
C14_SinkIndependence ==
    SinkRaised =>
        LET ev == raised[1].event
        IN /\ raised[1].op = "jsonl" => (LastIs(human_log, FormatHuman(ev)) /\ Echoed(ev))
           /\ raised[1].op = "human" => (LastIs(journal, ev) /\ Echoed(ev))

\* The calls of the log made with the given operation.
Calls(op) == {k \in 1..Len(api_log) : api_log[k].op = op}

\* C15: record_build(r) immediately followed by recent_builds(limit=1)
\* returns exactly one row, whose timestamp, duration_ms and success are those
\* of r (success comes back as the integer 1 or 0, which Python compares equal
\* to True and False).
C15_RoundTrip ==
    \A k \in Calls("recent_builds") :
        (k > 1 /\ api_log[k].arg = 1 /\ api_log[k - 1].op = "record_build") =>
            LET r == api_log[k - 1].arg
            IN api_log[k].result =
                  << <<r.timestamp, r.duration_ms, IF r.success THEN 1 ELSE 0>> >>

\* C15 witness: the round trip on a store that already held an older build
\* whose columns differ from those of r.
C15_Witness ==
    \E k \in Calls("recent_builds") :
        /\ k > 1 /\ api_log[k].arg = 1 /\ api_log[k - 1].op = "record_build"
        /\ api_log[k - 1].store # <<>>
        /\ Selected(api_log[k - 1].store[1]) # api_log[k].result[1]

\* C16: average_duration returns the no-data signal exactly when the store
\* holds no build; with at least one build it returns the arithmetic mean of
\* duration_ms over all builds (the fraction sum over count), also when that
\* mean is 0.
C16_AverageDuration ==
    \A k \in Calls("average_duration") :
        LET rows == api_log[k].store
        IN api_log[k].result =
              IF rows = <<>> THEN None ELSE Some(<<SumDurations(rows), Len(rows)>>)

\* The smaller of two numbers.
Min(a, b) == IF a < b THEN a ELSE b

\* C17: for a limit >= 0, recent_builds(limit) returns exactly the
\* min(limit, number of builds) most recently inserted builds, the most
\* recently inserted first; record_build returns an id that differs from the
\* id of every build already in the store.
C17_RecentBuilds ==
    /\ \A k \in Calls("recent_builds") :
          LET rows == api_log[k].store
              n == Len(rows)
              found == api_log[k].result
          IN api_log[k].arg >= 0 =>
                /\ Len(found) = Min(api_log[k].arg, n)
                /\ \A i \in 1..Len(found) : found[i] = Selected(rows[n - i + 1])
    /\ \A k \in Calls("record_build") :
          \A i \in 1..Len(api_log[k].store) : api_log[k].store[i].id # api_log[k].result

\* C17 witness: a limit smaller than the number of builds, on a store filled
\* by record_build calls with different columns.
C17_Witness ==
    \E k \in Calls("recent_builds") :
        /\ api_log[k].arg = 1
        /\ Len(api_log[k].store) = 2
        /\ Selected(api_log[k].store[1]) # Selected(api_log[k].store[2])
        /\ Calls("record_build") # {}

\* The record calls made before the k-th call, and the names they recorded.
RecordsBefore(k) == {j \in 1..(k - 1) : api_log[j].op = "record"}
NamesBefore(k) == {api_log[j].arg[1] : j \in RecordsBefore(k)}
\* The value of the last record call for a name before the k-th call.
LastValue(name, k) ==
    LET calls == {j \in RecordsBefore(k) : api_log[j].arg[1] = name}
    IN api_log[CHOOSE j \in calls : \A i \in calls : i <= j].arg[2]

\* C18: MetricsCollector is last-write-wins per name: what write() puts in
\* the JSON document is, for every recorded name, one entry with the value of
\* the last record call for that name, and nothing else; the text exposition
\* has one gauge line per recorded name, with that value, and nothing else.
C18_LastWriteWins ==
    \A k \in Calls("write") :
        LET names == NamesBefore(k)
            prom == api_log[k].prom
        IN /\ api_log[k].json = {<<JsonKey(n), LastValue(n, k)>> : n \in names}
           /\ Len(prom) = Cardinality(names)
           /\ \A n \in names :
                 \E i \in 1..Len(prom) : prom[i] = <<SafeKey(n), "gauge", LastValue(n, k)>>
           /\ \A i \in 1..Len(prom) :
                 \E n \in names : prom[i] = <<SafeKey(n), "gauge", LastValue(n, k)>>

\* C18 witness: record("x", 1), record("x", 2), write().
C18_Witness ==
    /\ Len(api_log) = 3
    /\ api_log[1] = [op |-> "record", arg |-> << <<"x">>, 1 >>]
    /\ api_log[2] = [op |-> "record", arg |-> << <<"x">>, 2 >>]
    /\ api_log[3].op = "write"
    /\ metrics_json = Some({<<JsonKey(<<"x">>), 2>>})
    /\ metrics_prom = Some(<< <<SafeKey(<<"x">>), "gauge", 2>> >>)

\* The test-phase duration metric, as it is named in each metrics file.
TestMetric == <<"build", "phase", "test", "duration_ms">>
InJson(name, file) == file # None /\ \E e \in file[1] : e[1] = JsonKey(name)
InProm(name, file) == file # None /\ \E i \in 1..Len(file[1]) : file[1][i][1] = SafeKey(name)
\* The run executed the test phase.
TestExecuted == \E i \in 1..Len(invoked) : invoked[i].phase = "test"
\* The metric set of this run: what it recorded, nothing when it was aborted
\* before any metric was recorded.
RunMetricSet == IF Aborted THEN {} ELSE ExpectedMetricsJson
\* The entries of metrics.json, none when the file is absent.
JsonEntries(file) == IF file = None THEN {} ELSE file[1]
\* The output directory holds the metrics files of an earlier run, which
\* executed the test phase.
EarlierRunWithTests ==
    InJson(TestMetric, at_start.metrics_json) /\ InProm(TestMetric, at_start.metrics_prom)
\* After the run the metrics files hold the run's metric set and no test-phase
\* duration metric the run did not record.
OnlyThisRun ==
    /\ JsonEntries(metrics_json) = RunMetricSet
    /\ \A e \in RunMetricSet :
          \E i \in 1..Len(metrics_prom[1]) : metrics_prom[1][i][3] = e[2]
    /\ Len(metrics_prom[1]) = Cardinality(RunMetricSet)
    /\ ~TestExecuted =>
          (~InJson(TestMetric, metrics_json) /\ ~InProm(TestMetric, metrics_prom))

\* C19 as stated: after two consecutive build runs sharing the output
\* directory the metrics files contain exactly the metric set of the later run
\* and nothing of the earlier one; no test-phase duration metric remains when
\* the earlier run executed the test phase and the later one did not.
C19_NoRetention_Original ==
    (pc = "done" /\ EarlierRunWithTests) => OnlyThisRun

\* C19, amended: the same for a later run that gets past preflight (a run
\* aborted by preflight writes no metrics and leaves the earlier files).
C19_NoRetention ==
    (pc = "done" /\ EarlierRunWithTests /\ ~Aborted) => OnlyThisRun

\* C19 witness: a finished run without tests on the output directory of an
\* earlier run with tests.
C19_Witness ==
    /\ pc = "done" /\ EarlierRunWithTests /\ ~Aborted /\ ~TestExecuted
    /\ Len(invoked) = 2 /\ metrics_json # at_start.metrics_json

\* The files of the knowledge directory with a pattern that occurs in the output.
Hits(output) ==
    {f \in knowledge : \E i \in 1..Len(f[2].patterns) :
                          f[2].patterns[i] # "" /\ f[2].patterns[i] \in output}
\* The i-th of a set of files in the order of their names.
Nth(files, i) == CHOOSE f \in files : Cardinality({g \in files : g[1] < f[1]}) = i - 1

\* C20: match(output) returns exactly the loaded units that have at least
\* one pattern found in the output, in the order of their file names, each
\* once even when several of its patterns are found; a unit none of whose
\* patterns is found is not returned.
C20_Match ==
    \A k \in Calls("match") :
        LET hits == Hits(api_log[k].arg)
        IN api_log[k].result = [i \in 1..Cardinality(hits) |-> Nth(hits, i)[2]]

\* C20 witness: of three units the first and the third in file-name order
\* match, the third by two of its patterns, the second does not.
C20_Witness ==
    \E k \in Calls("match") :
        /\ Cardinality(knowledge) = 3
        /\ api_log[k].arg = {"CS0246", "type or namespace"}
        /\ Len(api_log[k].result) = 2
        /\ api_log[k].result[1].error_code = "GENERIC"
        /\ api_log[k].result[2].error_code = "CS0246"

\* The well-formed files of the knowledge directory.
WellFormed == {f \in knowledge : f[2] # Malformed}

\* C21: loading the knowledge directory never aborts: once the matcher is
\* constructed the library is every well-formed unit of the directory, in the
\* order of the file names, the unreadable or malformed files skipped; for an
\* absent directory it is empty and every match returns the empty list.
C21_LoadNeverAborts ==
    pc # "new" =>
        /\ pc # "crashed"
        /\ patterns = [i \in 1..Cardinality(WellFormed) |-> Nth(WellFormed, i)[2]]
        /\ ~knowledge_exists =>
              (patterns = <<>> /\ \A k \in Calls("match") : api_log[k].result = <<>>)

\* C22: no phase is retried: within one run each phase's adapter function is
\* invoked at most once, whatever the exit codes, and a phase that failed is
\* not invoked again; each phase has at most one started event.
C22_NoRetry ==
    /\ \A i, j \in 1..Len(invoked) : invoked[i].phase = invoked[j].phase => i = j
    /\ \A i \in 1..Len(invoked) :
          Failed(invoked[i]) => \A j \in (i + 1)..Len(invoked) : invoked[j].phase # invoked[i].phase
    /\ \A i, j \in 1..Len(RunPhaseEvents) :
          (/\ RunPhaseEvents[i].event_type = "started"
           /\ RunPhaseEvents[j].event_type = "started"
           /\ RunPhaseEvents[i].phase = RunPhaseEvents[j].phase) => i = j

\* C22 witness: a run with tests whose first phase failed, finished with that
\* one adapter call.
C22_Witness ==
    /\ pc = "done" /\ args.with_tests
    /\ Len(invoked) = 1 /\ Failed(invoked[1]) /\ exit_code = Some(1)

\* The probe could not launch its tool.
LaunchFailed(p) == ~p.found \/ p = Denied
\* The VCS tree-identity probe gave no tree id.
TreeProbeFailed(p) == LaunchFailed(p) \/ p.rc # 0 \/ p.stdout = ""
Sentinels == {"not-installed", "unknown"}

\* C23: no probe failure aborts the fingerprint computation: it returns, and
\* in the payload the version of a tool whose probe could not be launched is a
\* sentinel, the source hash is the content hash of the files when the tree
\* probe failed, and the lock-file hashes and the environment are those of the
\* world whatever probe failed.
C23_ProbesDegrade ==
    /\ pc # "crashed"
    /\ \A i \in 1..Len(console) :
          console[i].kind = "fingerprint" =>
             LET p == console[i].payload.payload
             IN /\ LaunchFailed(world.dotnet) => p.tool_versions.dotnet \in Sentinels
                /\ LaunchFailed(world.gitver) => p.tool_versions.git \in Sentinels
                /\ TreeProbeFailed(world.git) => p.source_hash = HashFiles(world.files)
                /\ p.dependency_lock_hashes = LockFileHashes(world)
                /\ p.environment = EnvironmentSnapshot(world)

\* The call a step has made: the entry it added to the log.
Called(op) ==
    /\ Len(api_log') = Len(api_log) + 1
    /\ api_log'[Len(api_log')].op = op
\* Every row of rows is among the rows the query returned.
Reflects(found, rows) ==
    \A i \in 1..Len(rows) : \E j \in 1..Len(found) : found[j] = Selected(rows[i])

\* C24: no HistoryStore operation changes or removes a row of builds or of
\* build_phases; constructing a BuildHistory on a store that holds rows leaves
\* both tables as they are; a recent_builds whose limit admits them returns
\* every build inserted so far, those of the earlier process included, and
\* average_duration is the mean over all of them (for a mean other than 0).
C24_Durable ==
    [][ /\ IsPrefix(builds, builds')
        /\ IsPrefix(build_phases, build_phases')
        /\ IsPrefix(at_start.builds, builds')
        /\ Called("construct") => (builds' = builds /\ build_phases' = build_phases)
        /\ (Called("recent_builds") /\ api_log'[Len(api_log')].arg \notin 0..(Len(builds) - 1))
              => Reflects(api_log'[Len(api_log')].result, builds)
        /\ (Called("average_duration") /\ SumDurations(builds) # 0)
              => api_log'[Len(api_log')].result = Some(<<SumDurations(builds), Len(builds)>>)
      ]_vars

\* C24 witness: on the store an earlier process left, a build is recorded, the
\* store is constructed again, and recent_builds returns both builds.
C24_Witness ==
    /\ at_start.builds # <<>> /\ at_start.build_phases # <<>>
    /\ Len(api_log) = 3
    /\ api_log[1].op = "record_build"
    /\ api_log[2].op = "construct"
    /\ api_log[3].op = "recent_builds" /\ Len(api_log[3].result) = 2
    /\ build_phases = at_start.build_phases

\* The phase rows run p has inserted so far, as it should have inserted them.
OwnPhaseRows(p) ==
    [i \in 1..(procs[p].k - 1) |->
        PhaseRow(procs[p].build_id[1], procs[p].durations[i][1], procs[p].durations[i][2], TRUE)]
\* The rows inserted since the runs started.
NewBuilds == SubSeq(builds, Len(at_start.builds) + 1, Len(builds))
NewPhases == SubSeq(build_phases, Len(at_start.build_phases) + 1, Len(build_phases))
Recorded(p) == procs[p].build_id # None

\* C25: with the record_build and record_phase calls of two runs interleaved
\* in any order no record is lost, the two runs obtain distinct build ids, and
\* the phase rows that carry a run's build id are exactly the rows that run
\* inserted, in its order.
C25_ConcurrentStore ==
    /\ IsPrefix(at_start.builds, builds) /\ IsPrefix(at_start.build_phases, build_phases)
    /\ Len(NewBuilds) = Cardinality({p \in Runs : Recorded(p)})
    /\ Len(NewPhases) = (procs[1].k - 1) + (procs[2].k - 1)
    /\ (Recorded(1) /\ Recorded(2)) => procs[1].build_id # procs[2].build_id
    /\ \A p \in Runs :
          Recorded(p) =>
             /\ \E i \in 1..Len(NewBuilds) :
                   NewBuilds[i] = BuildRow(procs[p].build_id[1], RunRecord(p, procs[p].succeeded))
             /\ \A i \in 1..Len(at_start.builds) : at_start.builds[i].id # procs[p].build_id[1]
             /\ SelectSeq(NewPhases, LAMBDA row : row.build_id = procs[p].build_id[1])
                   = OwnPhaseRows(p)

\* C25 witness: both runs are done, and the second run's record_build came
\* between the first run's record_build and its last record_phase.
C25_Witness ==
    /\ procs # <<>> /\ procs[1].pc = "done" /\ procs[2].pc = "done"
    /\ procs[1].build_id[1] < procs[2].build_id[1]
    /\ NewPhases[1].build_id = procs[1].build_id[1]
    /\ NewPhases[2].build_id = procs[2].build_id[1]
    /\ NewPhases[Len(NewPhases)].build_id = procs[1].build_id[1]

\* The journal lines written since the runs started, and the events run p has
\* emitted into the journal so far.
NewLines == SubSeq(journal, Len(at_start.journal) + 1, Len(journal))
EmittedBy(p) ==
    SubSeq(procs[p].events, 1, IF procs[p].pc = "human" THEN procs[p].k ELSE procs[p].k - 1)
EventsOf(p) == {procs[p].events[i] : i \in 1..Len(procs[p].events)}

\* C26: with two runs appending to one journal, what was in the journal stays,
\* every new line is one event of exactly one run, no emitted event is
\* missing, and the lines of each run are its emitted events in its own order.
C26_ConcurrentJournal ==
    /\ IsPrefix(at_start.journal, journal)
    /\ \A i \in 1..Len(NewLines) :
          Cardinality({p \in Runs : NewLines[i] \in EventsOf(p)}) = 1
    /\ Len(NewLines) = Len(EmittedBy(1)) + Len(EmittedBy(2))
    /\ \A p \in Runs :
          SelectSeq(NewLines, LAMBDA line : line \in EventsOf(p)) = EmittedBy(p)

\* C26 witness: both runs are done and their lines interleave, a line of the
\* second run lying between two lines of the first.
C26_Witness ==
    /\ procs # <<>> /\ procs[1].pc = "done" /\ procs[2].pc = "done"
    /\ Len(NewLines) >= 4
    /\ NewLines[1] \in EventsOf(1) /\ NewLines[2] \in EventsOf(2)
    /\ NewLines[3] \in EventsOf(1)

\* d is strictly greater than 1.5 times the mean a, a fraction <<sum, count>>.
Exceeds(d, a) == 2 * d * a[2] > 3 * a[1]
MeanIs(a, v) == a # None /\ a[1][1] = v * a[1][2]

\* C27: anomaly_warning(history, d) prints the warning (once) exactly when
\* average_duration() returns a value a and d > 1.5 * a; with a = 1000 there
\* is no warning at 1499 and 1500 and one at 1501; with no data there is none.
C27_AnomalyThreshold ==
    \A i \in Calls("anomaly_warning") :
        LET c == api_log[i]
        IN /\ c.result \in {0, 1}
           /\ c.result = 1 <=> (c.avg # None /\ Exceeds(c.arg, c.avg[1]))
           /\ c.avg = AverageDuration(c.store)
           /\ MeanIs(c.avg, 1000) => (c.result = 1 <=> c.arg = 1501)
           /\ c.avg = None => c.result = 0

\* C27 witness: on a store with mean 1000, a call with 1500 that printed
\* nothing followed by a call with 1501 that printed the warning.
C27_Witness ==
    \E i, j \in Calls("anomaly_warning") :
        /\ i < j
        /\ MeanIs(api_log[i].avg, 1000) /\ api_log[i].arg = 1500 /\ api_log[i].result = 0
        /\ MeanIs(api_log[j].avg, 1000) /\ api_log[j].arg = 1501 /\ api_log[j].result = 1

IsStarted(e) == IsPhaseEvent(e) /\ e.event_type = "started"
IsTerminal(e) == IsPhaseEvent(e) /\ e.event_type \in {"completed", "failed"}
FailedPhaseEvents == {i \in 1..Len(RunPhaseEvents) : RunPhaseEvents[i].event_type = "failed"}

\* C28: in the events of a run, a started event of a phase is followed at once
\* by one completed or failed event of the same phase (it is the last event
\* only while the adapter call is in progress), every completed or failed
\* phase event follows the started event of its phase at once, the phase
\* events carry no other type, come before the aggregate build event, at most
\* one of them is failed, and a failed one is the last phase event.
C28_PhaseEventsPaired ==
    /\ \A i \in 1..Len(RunEvents) :
          /\ IsPhaseEvent(RunEvents[i]) => (IsStarted(RunEvents[i]) \/ IsTerminal(RunEvents[i]))
          /\ IsStarted(RunEvents[i]) =>
                IF i = Len(RunEvents) THEN pc = "phase_call"
                ELSE IsTerminal(RunEvents[i + 1]) /\ RunEvents[i + 1].phase = RunEvents[i].phase
          /\ IsTerminal(RunEvents[i]) =>
                i > 1 /\ IsStarted(RunEvents[i - 1]) /\ RunEvents[i - 1].phase = RunEvents[i].phase
          /\ IsAggregate(RunEvents[i]) =>
                \A j \in 1..Len(RunEvents) : IsPhaseEvent(RunEvents[j]) => j < i
    /\ Cardinality(FailedPhaseEvents) <= 1
    /\ \A i \in FailedPhaseEvents : i = Len(RunPhaseEvents)
    /\ pc = "phase_call" =>
          RunEvents # <<>> /\ IsStarted(RunEvents[Len(RunEvents)])

\* C28 witness: a run with tests has ended after restore and build completed
\* and test failed: three pairs, the failed event the last phase event.
C28_Witness ==
    /\ pc = "done" /\ Len(RunPhaseEvents) = 6
    /\ FailedPhaseEvents = {6}
    /\ \E i \in 1..Len(RunEvents) : IsAggregate(RunEvents[i])

\* The outputs of a finished run: its aggregate event, its row of builds, its
\* build.success metric in both files, its rows of build_phases.
AggregateEvent == RunEvents[CHOOSE i \in 1..Len(RunEvents) : IsAggregate(RunEvents[i])]
RunRow == builds[Len(builds)]
SuccessMetricJson ==
    (CHOOSE e \in metrics_json[1] : e[1] = JsonKey(<<"build", "success">>))[2]
SuccessMetricProm ==
    metrics_prom[1][CHOOSE i \in 1..Len(metrics_prom[1]) :
                       metrics_prom[1][i][1] = SafeKey(<<"build", "success">>)][3]
RunPhaseRows == SubSeq(build_phases, Len(at_start.build_phases) + 1, Len(build_phases))
TerminalEventOf(phase) ==
    RunEvents[CHOOSE i \in 1..Len(RunEvents) :
                 IsTerminal(RunEvents[i]) /\ RunEvents[i].phase = phase]
Finished == pc = "done" /\ ~Aborted

Stage ==
    CASE pc = "entry" -> 0
      [] pc = "start" -> 1
      [] pc = "fingerprint" -> 2
      [] pc \in {"phase_start", "phase_call"} ->
            (CASE Phases(args)[phase_idx] = "restore" -> 3
               [] Phases(args)[phase_idx] = "build" -> 4
               [] Phases(args)[phase_idx] = "test" -> 5)
      [] OTHER -> 6
ConfiguredPhases == IF args.with_tests THEN 3 ELSE 2

\* C30: every run reaches the end with exit code 0, 1 or 2; it never makes
\* more adapter calls than there are configured phases (2 without tests, 3
\* with tests); and no step takes it back to an earlier stage.
C30_Terminates ==
    /\ <>(pc = "done" /\ exit_code \in {Some(0), Some(1), Some(2)})
    /\ [](Len(invoked) <= ConfiguredPhases /\ Len(Phases(args)) = ConfiguredPhases)
    /\ [][Stage' >= Stage]_vars

\* C30 witness: a run with tests has ended after three adapter calls, having
\* been through every stage.
C30_Witness ==
    /\ pc = "done" /\ exit_code = Some(0) /\ args.with_tests
    /\ Len(invoked) = 3 /\ ok = Some(TRUE)
====
